---------------------------- MODULE Spec2Model ----------------------------
(***************************************************************************)
(* A model of the any2vp9 / any2arch conversion jobs: the probe, the       *)
(* chapter remapper (AVExtractor.extract_chapters), the stream extractors, *)
(* the decode | encode pipes of the audio step and of the two video        *)
(* passes, and the muxer invocation, as main() drives them.                *)
(***************************************************************************)
EXTENDS Integers, Sequences, FiniteSets, TLC

VARIABLES
    prog,             \* which script runs: "any2vp9" or "any2arch"
    cl,               \* the parsed command line (argparse namespace)
    pc,               \* position of main(): <<phase, step>>
    src,              \* the probed attributes of AVExtractor / AVFile
    procs,            \* Popen'ed children: <<pass, stage>> -> status
    reaped,           \* children whose wait() has returned
    passState,        \* per pass: NotStarted, Running, Success, DecodeFailed, EncodeFailed
    invoked,          \* external tools run through check_call / check_output
    work_dir,         \* tempfile.TemporaryDirectory: "none", "exists", "removed"
    paths,            \* chapters_path, attachments_path, subtitles_path: set or None
    exit_code,        \* <<>> while running, <<0>> or <<1>> once the process ended
    cwd,              \* os.getcwd(): "orig" or "attachments"
    error,            \* the exception or diagnostic that ended the job, "" if none
    chapters,         \* text printed by mkvextract chapters / dvdxchap, as lines
    chap_start,       \* self.chap_start
    chap_end,         \* self.chap_end
    new_chapters,     \* text written to the chapter file, as lines
    chap_file,        \* the chapter file: "absent" or "written"
    mux_args,         \* the arguments of mux_matroska_mkv / mux_matroska
    cmd,              \* the mkvmerge command line, as its sequence of words
    video_framerate,      \* the "... fps" text of the probe in thousandths, 0: none
    video_framerate_frac, \* self.video_framerate_frac, <<>> until stored
    rate_cl,              \* command_line.ivtc, .deinterlace and .rate
    final_rate,           \* the frame rate handed to the encoder, <<>> until set
    kf_max_dist,          \* kf_max_dist of each encoder pass, None until computed
    pipes,                \* per pass, the stdout pipe of the decoder: the parent's
                          \* handle, and the children started with it as stdin
    picture_cl,           \* command_line.scale, .crop, .post_process, .high_quality
    video_dimensions,     \* extractor.video_dimensions, <<>> until probed
    final_dimensions,     \* the picture size handed to the encoder, <<>> until set
    popen_args            \* per pass, the arguments of the decoder's and of the
                          \* encoder's Popen, None until started

jobVars  == <<prog, cl, pc, src, procs, reaped, passState, invoked, work_dir,
              paths, exit_code, cwd, error>>
chapVars == <<chapters, chap_start, chap_end, new_chapters, chap_file>>
muxVars  == <<mux_args, cmd>>
rateVars == <<video_framerate, video_framerate_frac, rate_cl, final_rate, kf_max_dist>>
encVars  == <<picture_cl, video_dimensions, final_dimensions, popen_args>>
vars     == <<jobVars, chapVars, muxVars, rateVars, pipes, encVars>>

(***************************************************************************)
(* Python values                                                           *)
(***************************************************************************)
None    == <<>>
Some(x) == <<x>>
Val(o)  == o[1]

\* A string of decimal digits is a sequence over 0..9; Minus is the sign '-'.
Minus == 10

RECURSIVE Digits(_)
Digits(n) == IF n < 10 THEN <<n>> ELSE Append(Digits(n \div 10), n % 10)

\* str( n ) of an int
Str(n) == IF n < 0 THEN <<Minus>> \o Digits(-n) ELSE Digits(n)

\* s.zfill( w ): zeros go after the sign, up to w characters in all
RECURSIVE Zfill(_, _)
Zfill(s, w) ==
    IF Len(s) >= w THEN s
    ELSE IF s # <<>> /\ s[1] = Minus THEN <<Minus>> \o Zfill(Tail(s), w - 1)
    ELSE Zfill(<<0>> \o s, w)

\* int( s ) of a group matched by (\d+)
RECURSIVE ParseInt(_)
ParseInt(s) ==
    IF s = <<>> THEN 0
    ELSE ParseInt(SubSeq(s, 1, Len(s) - 1)) * 10 + s[Len(s)]

(***************************************************************************)
(* Chapter text.  A line of the simple chapter format is one of            *)
(*   CHAPTERnn=HH:MM:SS.mmm       kind "time"   (CHAPTERS_TIME_RE)         *)
(*   CHAPTERnnNAME=Chapter N      kind "title1" (CHAPTERS_TITLE_1_RE)      *)
(*   CHAPTERnnNAME=<text>         kind "title2" (CHAPTERS_TITLE_2_RE only) *)
(* or any other text, kind "other", which none of the three matches.       *)
(* idx and num are the digit strings as they stand in the text; time is    *)
(* the four fixed-width fields <<HH, MM, SS, mmm>>; text is the free text  *)
(* as a sequence of pieces, a character that str.splitlines takes for the  *)
(* end of a line being a piece of its own.                                 *)
(***************************************************************************)
TimeLine(idx, t)     == [kind |-> "time",   idx |-> idx, time |-> t,
                         num |-> <<>>, text |-> <<>>]
Title1Line(idx, num) == [kind |-> "title1", idx |-> idx, time |-> <<0, 0, 0, 0>>,
                         num |-> num, text |-> <<>>]
Title2Line(idx, txt) == [kind |-> "title2", idx |-> idx, time |-> <<0, 0, 0, 0>>,
                         num |-> <<>>, text |-> txt]
OtherLine(txt)       == [kind |-> "other",  idx |-> <<>>, time |-> <<0, 0, 0, 0>>,
                         num |-> <<>>, text |-> txt]

\* Characters other than "\n" at which str.splitlines ends a line, of which
\* a title can hold any: form feed and the Unicode line separator stand for
\* them ("\r", "\v", "\x1c" to "\x1e", "\x85" and "\u2029" are the others).
LineBoundaries == {"U+000C", "U+2028"}

\* The pieces between the line boundaries of a text; cur is the piece begun
RECURSIVE SplitText(_, _)
SplitText(t, cur) ==
    IF t = <<>> THEN (IF cur = <<>> THEN <<>> ELSE <<cur>>)
    ELSE IF Head(t) \in LineBoundaries
    THEN <<cur>> \o SplitText(Tail(t), <<>>)
    ELSE SplitText(Tail(t), Append(cur, Head(t)))

\* chapters.splitlines() of the text whose lines, as the tool ended them
\* with "\n", are chs: a line is cut at each line boundary of its free text
\* and what follows the cut is a line of its own.
SplitLine(line) ==
    LET ps == SplitText(line.text, <<>>)
    IN  IF ps = <<>> THEN <<line>>
        ELSE <<[line EXCEPT !.text = ps[1]]>>
                 \o [ k \in 1..(Len(ps) - 1) |-> OtherLine(ps[k + 1]) ]

RECURSIVE splitlines(_)
splitlines(chs) ==
    IF chs = <<>> THEN <<>> ELSE SplitLine(Head(chs)) \o splitlines(Tail(chs))

CHAPTERS_TIME_RE(line)    == line.kind = "time"
CHAPTERS_TITLE_1_RE(line) == line.kind = "title1"
CHAPTERS_TITLE_2_RE(line) == line.kind \in {"title1", "title2"}

\* datetime.timedelta( hours, minutes, seconds, milliseconds ), in milliseconds
timedelta(t) == ((t[1] * 60 + t[2]) * 60 + t[3]) * 1000 + t[4]

\* The fields extract_chapters writes of a timedelta d: d.seconds is the seconds within
\* the day (d.days is never read), d.microseconds // 1000 the milliseconds.
td_seconds(d) == (d \div 1000) % 86400
FormatTime(d) == << td_seconds(d) \div 3600,
                    (td_seconds(d) \div 60) % 60,
                    td_seconds(d) % 60,
                    d % 1000 >>

\* ( chap_start is None or idx >= chap_start ) and ( chap_end is None or idx <= chap_end )
InRange(line, cs, ce) ==
    /\ (cs = None \/ ParseInt(line.idx) >= Val(cs))
    /\ (ce = None \/ ParseInt(line.idx) <= Val(ce))

\* re.search( '^CHAPTER' + str( chap_start ).zfill( 2 ) + '=...$', chapters, re.M )
StartMatches(chs, cs) ==
    { i \in 1..Len(chs) : CHAPTERS_TIME_RE(chs[i]) /\ chs[i].idx = Zfill(Str(Val(cs)), 2) }

Min(S) == CHOOSE x \in S : \A y \in S : x <= y

offset_index(cs) == IF cs # None THEN Val(cs) - 1 ELSE 0
offset_time(chs, cs) ==
    IF cs # None THEN timedelta(chs[Min(StartMatches(chs, cs))].time) ELSE 0

\* The body of the for loop: the lines a source line adds to new_chapters.
RemapLine(line, chs, cs, ce) ==
    IF CHAPTERS_TIME_RE(line) /\ InRange(line, cs, ce)
    THEN << TimeLine(Zfill(Str(ParseInt(line.idx) - offset_index(cs)), 2),
                     FormatTime(timedelta(line.time) - offset_time(chs, cs))) >>
    ELSE IF CHAPTERS_TITLE_1_RE(line) /\ InRange(line, cs, ce)
    THEN << Title1Line(Zfill(Str(ParseInt(line.idx) - offset_index(cs)), 2),
                       Zfill(Str(ParseInt(line.num) - offset_index(cs)), 2)) >>
    ELSE IF CHAPTERS_TITLE_2_RE(line) /\ InRange(line, cs, ce)
    THEN << [line EXCEPT !.idx = Zfill(Str(ParseInt(line.idx) - offset_index(cs)), 2)] >>
    ELSE << >>

RECURSIVE RemapLines(_, _, _, _)
RemapLines(rest, chs, cs, ce) ==
    IF rest = <<>> THEN <<>>
    ELSE RemapLine(Head(rest), chs, cs, ce) \o RemapLines(Tail(rest), chs, cs, ce)

\* extract_chapters after the tool has printed chs: raises when the start
\* chapter is not found, else returns the text it writes.
StartMissing(chs, cs) == cs # None /\ StartMatches(chs, cs) = {}

\* extract_chapters falling back to a zero offset when the start chapter is
\* not in the text
extract_chapters_clamped(chs, cs, ce) ==
    IF StartMissing(chs, cs)
    THEN [raised |-> FALSE, text |-> RemapLines(splitlines(chs), chs, None, ce)]
    ELSE [raised |-> FALSE, text |-> RemapLines(splitlines(chs), chs, cs, ce)]

extract_chapters(chs, cs, ce) ==
    IF StartMissing(chs, cs)
    THEN [raised |-> TRUE,  text |-> <<>>]
    ELSE [raised |-> FALSE, text |-> RemapLines(splitlines(chs), chs, cs, ce)]

(***************************************************************************)
(* Python numbers: int of any size, and float (IEEE 754 binary64, round to *)
(* nearest, ties to even) worked out on the digits                         *)
(***************************************************************************)
\* An int too large for the checker's integers is the sequence of its digits
\* in base Base = 2^LimbBits, most significant first, without leading zeros;
\* 0 is <<>>.
LimbBits == 13
Base     == 8192
SmallPow2 == <<1, 2, 4, 8, 16, 32, 64, 128, 256, 512, 1024, 2048, 4096, 8192>>
TwoTo(j) == SmallPow2[j + 1]

Front(a) == SubSeq(a, 1, Len(a) - 1)
Last(a)  == a[Len(a)]
Zeros(n) == [ i \in 1..n |-> 0 ]
MaxOf(i, j) == IF i >= j THEN i ELSE j
MinOf(i, j) == IF i <= j THEN i ELSE j

RECURSIVE BigOfInt(_)
BigOfInt(n) == IF n = 0 THEN <<>> ELSE Append(BigOfInt(n \div Base), n % Base)

RECURSIVE BigToInt(_)
BigToInt(a) == IF a = <<>> THEN 0 ELSE BigToInt(Front(a)) * Base + Last(a)

\* a * m + c for small m and c
RECURSIVE BigMulAdd(_, _, _)
BigMulAdd(a, m, c) ==
    IF a = <<>> THEN BigOfInt(c)
    ELSE LET t == Last(a) * m + c
         IN  Append(BigMulAdd(Front(a), m, t \div Base), t % Base)

RECURSIVE BigStrip(_)
BigStrip(a) == IF a # <<>> /\ Head(a) = 0 THEN BigStrip(Tail(a)) ELSE a

\* a * 2^s: whole digits first, then the bits that remain
BigShl(a, s) ==
    IF a = <<>> THEN <<>>
    ELSE BigMulAdd(a \o Zeros(s \div LimbBits), TwoTo(s % LimbBits), 0)

Pow2(e) == BigShl(<<1>>, e)

\* a \div d for small d, digit by digit from the top, r carried down
RECURSIVE BigDivDigits(_, _, _)
BigDivDigits(a, d, r) ==
    IF a = <<>> THEN <<>>
    ELSE LET t == r * Base + Head(a)
         IN  <<t \div d>> \o BigDivDigits(Tail(a), d, t % d)

\* a \div 2^s
BigShr(a, s) ==
    LET kept == SubSeq(a, 1, Len(a) - s \div LimbBits)
    IN  BigStrip(BigDivDigits(kept, TwoTo(s % LimbBits), 0))

\* The number of bits of a, and of zero bits at its end (a > 0)
BitLen(a) ==
    IF a = <<>> THEN 0
    ELSE (Len(a) - 1) * LimbBits
         + (CHOOSE b \in 1..LimbBits : TwoTo(b - 1) <= Head(a) /\ Head(a) < TwoTo(b))
TrailingZeros(a) ==
    LET i == CHOOSE k \in 1..Len(a) : a[k] # 0 /\ \A j \in (k + 1)..Len(a) : a[j] = 0
    IN  (Len(a) - i) * LimbBits
        + (CHOOSE b \in 0..LimbBits : a[i] % TwoTo(b) = 0 /\ (a[i] \div TwoTo(b)) % 2 = 1)

BigLess(a, b) ==
    IF Len(a) # Len(b) THEN Len(a) < Len(b)
    ELSE \E i \in 1..Len(a) : a[i] < b[i] /\ \A j \in 1..(i - 1) : a[j] = b[j]

\* a - b - borrow on digit sequences of one length, leading zeros kept
RECURSIVE BigSubDigits(_, _, _)
BigSubDigits(a, b, borrow) ==
    IF a = <<>> THEN <<>>
    ELSE LET t == Last(a) - Last(b) - borrow
         IN  IF t < 0
             THEN Append(BigSubDigits(Front(a), Front(b), 1), t + Base)
             ELSE Append(BigSubDigits(Front(a), Front(b), 0), t)

\* a - b for a >= b
BigSub(a, b) == BigStrip(BigSubDigits(a, Zeros(Len(a) - Len(b)) \o b, 0))

BigIsEven(a) == a = <<>> \/ Last(a) % 2 = 0

\* A float is zero or m * 2^(-e) with 2^52 <= m < 2^53: m has the digit 1
\* and MantissaLimbs digits after it.
MantissaLimbs == 4
FloatZero     == [ m |-> <<>>, e |-> 0 ]

\* The next digit of a quotient, bit by bit: R is the remainder so far
\* (R < D), k bits are still to come and acc holds those already found.
RECURSIVE QuotientLimb(_, _, _, _)
QuotientLimb(R, D, acc, k) ==
    IF k = 0 THEN [ limb |-> acc, r |-> R ]
    ELSE LET R2 == BigMulAdd(R, 2, 0)
         IN  IF BigLess(R2, D)
             THEN QuotientLimb(R2, D, 2 * acc, k - 1)
             ELSE QuotientLimb(BigSub(R2, D), D, 2 * acc + 1, k - 1)

\* n more digits of the quotient after the digits q
RECURSIVE QuotientLimbs(_, _, _, _)
QuotientLimbs(R, D, q, n) ==
    IF n = 0 THEN [ q |-> q, r |-> R ]
    ELSE LET l == QuotientLimb(R, D, 0, LimbBits)
         IN  QuotientLimbs(l.r, D, Append(q, l.limb), n - 1)

\* The one element of a set.  A variable bound over { e } holds the value of
\* e, so a number that is used more than once below is worked out once.
Value(S) == CHOOSE v \in S : TRUE

\* The float nearest to N / D for ints N >= 0 and D > 0: N or D is doubled
\* until D <= N < 2 * D, the quotient is taken to 53 bits and rounded on
\* the remainder, ties to even.
RoundedQuotient(N2, D1, e) ==
    Value({ LET twice == BigMulAdd(b.r, 2, 0)
                up    == BigLess(D1, twice) \/ (twice = D1 /\ ~BigIsEven(b.q))
                bits  == MantissaLimbs * LimbBits
            IN  Value({ IF Head(m) = 2
                        THEN [ m |-> BigShr(m, 1), e |-> e + bits - 1 ]
                        ELSE [ m |-> m, e |-> e + bits ] :
                        m \in {IF up THEN BigMulAdd(b.q, 1, 1) ELSE b.q} }) :
            b \in {QuotientLimbs(BigSub(N2, D1), D1, <<1>>, MantissaLimbs)} })

ScaledQuotient(N, D, s) ==
    Value({ IF BigLess(N1, D1)
            THEN RoundedQuotient(BigMulAdd(N1, 2, 0), D1, s + 1)
            ELSE RoundedQuotient(N1, D1, s) :
            N1 \in {IF s > 0 THEN BigShl(N, s) ELSE N},
            D1 \in {IF s < 0 THEN BigShl(D, 0 - s) ELSE D} })

FloatOfRatio(N, D) ==
    Value({ IF n = <<>> THEN FloatZero ELSE ScaledQuotient(n, d, BitLen(d) - BitLen(n)) :
            n \in {N}, d \in {D} })

\* float( n ) of an int, float( text ) of the decimal k / scale
FloatOfInt(n)            == FloatOfRatio(BigOfInt(n), <<1>>)
FloatOfDecimal(k, scale) == FloatOfRatio(BigOfInt(k), BigOfInt(scale))

\* x / y
FloatDiv(x, y) ==
    LET r == FloatOfRatio(x.m, y.m)
    IN  IF x.m = <<>> THEN FloatZero ELSE [ m |-> r.m, e |-> r.e + x.e - y.e ]

\* abs( x - y )
FloatAbsDiff(x, y) ==
    LET E == MaxOf(x.e, y.e)
        X == BigShl(x.m, E - x.e)
        Y == BigShl(y.m, E - y.e)
        d == IF BigLess(X, Y) THEN BigSub(Y, X) ELSE BigSub(X, Y)
        r == FloatOfRatio(d, <<1>>)
    IN  IF d = <<>> THEN FloatZero ELSE [ m |-> r.m, e |-> r.e + E ]

\* x * n for a small int n, as x * float( n )
FloatTimesInt(x, n) ==
    LET r == FloatOfRatio(BigMulAdd(x.m, n, 0), <<1>>)
    IN  IF x.m = <<>> \/ n = 0 THEN FloatZero ELSE [ m |-> r.m, e |-> r.e + x.e ]

\* x * 10.0
FloatTimes10(x) == FloatTimesInt(x, 10)

\* x < y
FloatLess(x, y) ==
    LET E == MaxOf(x.e, y.e)
    IN  BigLess(BigShl(x.m, E - x.e), BigShl(y.m, E - y.e))

\* math.floor( x ) and math.ceil( x ) for x >= 0
math_floor(x) ==
    IF x.e <= 0 THEN BigToInt(BigShl(x.m, 0 - x.e)) ELSE BigToInt(BigShr(x.m, x.e))
math_ceil(x) ==
    IF x.m = <<>> \/ x.e <= 0 \/ TrailingZeros(x.m) >= x.e
    THEN math_floor(x) ELSE math_floor(x) + 1

\* round( x ) for x >= 0: the nearest int, the even one of two
round(x) ==
    LET n    == math_floor(x)
        frac == FloatAbsDiff(x, FloatOfInt(n))
        half == FloatOfDecimal(1, 2)
    IN  IF FloatLess(half, frac) \/ (frac = half /\ n % 2 = 1) THEN n + 1 ELSE n

\* fractions.Fraction( x ): the exact value of the float in lowest terms,
\* ( numerator, denominator )
FractionOfFloat(x) ==
    IF x.m = <<>> THEN <<<<>>, <<1>>>>
    ELSE IF x.e <= 0 THEN <<BigShl(x.m, 0 - x.e), <<1>>>>
    ELSE LET r == MinOf(TrailingZeros(x.m), x.e)
         IN  <<BigShr(x.m, r), Pow2(x.e - r)>>

(***************************************************************************)
(* Frame rate and keyframe distance                                        *)
(***************************************************************************)
\* The frame rate of the probe text, "(\d+\.\d+) fps" with three decimals,
\* is held as k, its thousandths.
\* abs( math.ceil( f ) / 1.001 - f ) / f < 0.00001
IsNtscRate(f) ==
    FloatLess(FloatDiv(FloatAbsDiff(FloatDiv(FloatOfInt(math_ceil(f)),
                                             FloatOfDecimal(1001, 1000)), f), f),
              FloatOfDecimal(1, 100000))

RECURSIVE Gcd(_, _)
Gcd(a, b) == IF b = 0 THEN a ELSE Gcd(b, a % b)

\* self.video_framerate_frac for the probed text k / 1000
framerate_frac(k) ==
    LET f == FloatOfDecimal(k, 1000)
    IN  IF IsNtscRate(f)
        THEN <<BigOfInt(math_ceil(f) * 1000), BigOfInt(1001)>>
        ELSE FractionOfFloat(f)

\* fractions.Fraction( n, d ) as ( numerator, denominator ).  The rates that
\* reach it have a power of two or a small number below the line.
Fraction(n, d) ==
    LET z  == MinOf(TrailingZeros(n), TrailingZeros(d))
        n1 == BigShr(n, z)
        d1 == BigShr(d, z)
        g  == Gcd(BigToInt(n1), BigToInt(d1))
    IN  IF Len(n1) <= 2 /\ Len(d1) <= 2
        THEN <<BigOfInt(BigToInt(n1) \div g), BigOfInt(BigToInt(d1) \div g)>>
        ELSE <<n1, d1>>

\* kf_max_dist = math.floor( float( framerate[0] ) / float( framerate[1] ) * 10.0 )
kf_max_dist_of(framerate) ==
    math_floor(FloatTimes10(FloatDiv(FloatOfRatio(framerate[1], <<1>>),
                                     FloatOfRatio(framerate[2], <<1>>))))

\* The rate options of a command line, and the state before any rate is known
NoRateOptions == [ ivtc |-> FALSE, deinterlace |-> FALSE, rate |-> None ]
NoKfMaxDist   == [ p \in {"pass1", "pass2"} |-> None ]

(***************************************************************************)
(* The decoder and the encoder of a video pass                             *)
(***************************************************************************)
NoPictureOptions == [ scale |-> None, crop |-> None, post_process |-> FALSE,
                      high_quality |-> FALSE ]
NoPopenArgs      == [ p \in {"pass1", "pass2"} |-> None ]

\* A filter of the -vf list: its text and the numbers joined to it
Filter(name, numbers) == <<name, numbers>>

\* AVExtractor.decode_video( pp, scale, crop, deint, ivtc, force_rate ): the
\* filters in their order, the -ofps option and the input
decode_video(pp, scale, crop, deint, ivtc, force_rate) ==
    [ filters |->
          <<Filter("format=i420", <<>>)>>
          \o (IF ivtc THEN (IF crop = None THEN <<Filter("filmdint=fast=0", <<>>)>>
                            ELSE <<Filter("filmdint=fast=0/crop=", Val(crop))>>)
              ELSE <<>>)
          \o (IF deint THEN <<Filter("yadif=1", <<>>)>> ELSE <<>>)
          \o (IF crop # None /\ ~ivtc THEN <<Filter("crop=", Val(crop))>> ELSE <<>>)
          \o (IF scale # None THEN <<Filter("scale=", Val(scale))>> ELSE <<>>)
          \o (IF pp THEN <<Filter("pp=ha/va/dr", <<>>)>> ELSE <<>>)
          \o <<Filter("hqdn3d", <<>>), Filter("harddup", <<>>)>>,
      ofps |-> IF ivtc THEN Some(<<24000, 1001>>) ELSE force_rate,
      input |-> "mplayer_input_args" ]

\* AVFile.start_decode_video( deinterlace, ivtc, crop, scale )
start_decode_video(deinterlace, ivtc, crop, scale) ==
    [ filters |->
          <<Filter("scale", <<>>), Filter("format=i420", <<>>)>>
          \o (IF ivtc THEN <<Filter("pullup", <<>>), Filter("softskip", <<>>)>> ELSE <<>>)
          \o (IF deinterlace THEN <<Filter("yadif=1", <<>>)>> ELSE <<>>)
          \o (IF crop # None THEN <<Filter("crop=", Val(crop))>> ELSE <<>>)
          \o (IF scale # None THEN <<Filter("scale=", Val(scale))>> ELSE <<>>)
          \o <<Filter("hqdn3d", <<>>), Filter("harddup", <<>>)>>,
      ofps |-> IF ivtc THEN Some(<<24000, 1001>>) ELSE None,
      input |-> "mplayer_input_args" ]

\* bitrate = round( ( 3000 - 1000 ) / ( 1080 - 480 ) * dimensions[1] - 600 )
bitrate_of(dimensions) ==
    round(FloatAbsDiff(FloatTimesInt(FloatDiv(FloatOfInt(3000 - 1000),
                                              FloatOfInt(1080 - 480)), dimensions[2]),
                       FloatOfInt(600)))

token_parts_of(dimensions) ==
    IF dimensions[2] < 480 THEN 0
    ELSE IF dimensions[2] < 720 THEN 1
    ELSE IF dimensions[2] < 1080 THEN 2
    ELSE 3

\* encode_vp9_video_passN with --fpf taken from the pass
vpxenc_own_stats(p, pass, out, vpx_stats, dimensions, framerate, high_quality) ==
    [ pass |-> pass, output |-> out, fpf |-> <<vpx_stats, pass>>,
      width |-> dimensions[1], height |-> dimensions[2], fps |-> framerate,
      bitrate |-> bitrate_of(dimensions), min_q |-> 0, max_q |-> 48,
      kf_max_dist |-> kf_max_dist_of(framerate), cq_level |-> 16, token_parts |-> None ]

\* The vpxenc command of encode_vp9_video_pass1 / _pass2 (any2vp9) and of
\* start_encode_vp8_video_pass_1 / _pass_2 (any2arch)
vpxenc(p, pass, out, vpx_stats, dimensions, framerate, high_quality) ==
    IF p = "any2vp9"
    THEN [ pass |-> pass, output |-> out, fpf |-> vpx_stats,
           width |-> dimensions[1], height |-> dimensions[2], fps |-> framerate,
           bitrate |-> bitrate_of(dimensions), min_q |-> 0, max_q |-> 48,
           kf_max_dist |-> kf_max_dist_of(framerate), cq_level |-> 16,
           token_parts |-> None ]
    ELSE [ pass |-> pass, output |-> out, fpf |-> vpx_stats,
           width |-> dimensions[1], height |-> dimensions[2], fps |-> framerate,
           bitrate |-> IF high_quality THEN 3200 ELSE 1700, min_q |-> 0, max_q |-> 24,
           kf_max_dist |-> kf_max_dist_of(framerate),
           cq_level |-> IF high_quality THEN 1 ELSE 4,
           token_parts |-> Some(token_parts_of(dimensions)) ]

(***************************************************************************)
(* The mkvmerge command line                                               *)
(***************************************************************************)
\* A word of the command: pre + s, then str( x ) + sep + str( y ) where the
\* word ends in a pair of numbers.
Word(w)       == [ pre |-> "", s |-> w, x |-> 0, sep |-> "", y |-> 0 ]
Lang(l)       == [ pre |-> "0:", s |-> l, x |-> 0, sep |-> "", y |-> 0 ]
Pair(p, sep)  == [ pre |-> "0:", s |-> "", x |-> p[1], sep |-> sep, y |-> p[2] ]
\* A file of the attachment directory; the number i stands for its name, a
\* smaller number for a name that sorts first.
AttachFile(i) == [ pre |-> "", s |-> "attachments/", x |-> i, sep |-> "", y |-> 0 ]

\* sorted( ... ) of a list of file names
RECURSIVE Sorted(_)
Sorted(names) ==
    IF names = <<>> THEN <<>>
    ELSE LET S == { names[k] : k \in 1..Len(names) }
             m == CHOOSE i \in S : \A j \in S : i <= j
             IsNotM(i) == i # m
         IN  <<m>> \o Sorted(SelectSeq(names, IsNotM))

RECURSIVE AttachWords(_)
AttachWords(names) ==
    IF names = <<>> THEN <<>>
    ELSE <<Word("--attach-file"), AttachFile(Head(names))>> \o AttachWords(Tail(names))

TitleOptions(a) ==
    IF a.title # None THEN <<Word("--title"), Word(Val(a.title))>> ELSE <<>>
ChapterOptions(a) ==
    IF a.chapters # None THEN <<Word("--chapters"), Word(Val(a.chapters))>> ELSE <<>>

\* AttachOptions with the files in the order glob lists them
AttachOptionsUnsorted(a) ==
    IF a.attachments # None THEN AttachWords(Val(a.attachments)) ELSE <<>>

\* for i in sorted( glob.glob( os.path.join( attachments, '*' ) ) ):
\* a.attachments is what glob returns for the directory, in any order
AttachOptions(a) ==
    IF a.attachments # None THEN AttachWords(Sorted(Val(a.attachments))) ELSE <<>>

LangOption(lang) ==
    IF lang # None THEN <<Word("--language"), Lang(Val(lang))>> ELSE <<>>

\* AspectOptions with one if per argument in both scripts
AspectOptionsEach(p, a) ==
    (IF a.vid_aspect # None
     THEN <<Word("--aspect-ratio"), Pair(Val(a.vid_aspect), "/")>> ELSE <<>>)
    \o (IF a.vid_pixaspect # None
        THEN <<Word("--aspect-ratio-factor"), Pair(Val(a.vid_pixaspect), "/")>> ELSE <<>>)
    \o (IF a.vid_displaysize # None
        THEN <<Word("--display-dimensions"), Pair(Val(a.vid_displaysize), "x")>> ELSE <<>>)

\* The aspect options of the video file: mux_matroska_mkv (any2vp9) has one
\* if per argument, mux_matroska (any2arch) an if / elif / elif chain that
\* starts with the pixel aspect.
AspectOptions(p, a) ==
    IF p = "any2vp9"
    THEN (IF a.vid_aspect # None
          THEN <<Word("--aspect-ratio"), Pair(Val(a.vid_aspect), "/")>> ELSE <<>>)
         \o (IF a.vid_pixaspect # None
             THEN <<Word("--aspect-ratio-factor"), Pair(Val(a.vid_pixaspect), "/")>> ELSE <<>>)
         \o (IF a.vid_displaysize # None
             THEN <<Word("--display-dimensions"), Pair(Val(a.vid_displaysize), "x")>> ELSE <<>>)
    ELSE IF a.vid_pixaspect # None
    THEN <<Word("--aspect-ratio-factor"), Pair(Val(a.vid_pixaspect), "/")>>
    ELSE IF a.vid_aspect # None
    THEN <<Word("--aspect-ratio"), Pair(Val(a.vid_aspect), "/")>>
    ELSE IF a.vid_displaysize # None
    THEN <<Word("--display-dimensions"), Pair(Val(a.vid_displaysize), "x")>>
    ELSE <<>>

\* The end of the command: mux_matroska_mkv adds the language whenever it is
\* given and the file whenever there is one, mux_matroska adds both only
\* when there is a file.
SubtitleOptions(p, a) ==
    IF p = "any2vp9"
    THEN LangOption(a.sub_lang)
         \o (IF a.sub_file # None THEN <<Word(Val(a.sub_file))>> ELSE <<>>)
    ELSE IF a.sub_file # None
    THEN LangOption(a.sub_lang) \o <<Word(Val(a.sub_file))>>
    ELSE <<>>

\* cmd of mux_matroska_mkv / command of mux_matroska
mux_matroska(p, a) ==
    <<Word("mkvmerge")>>
    \o TitleOptions(a) \o ChapterOptions(a) \o AttachOptions(a)
    \o <<Word("--output"), Word(a.out_file)>>
    \o LangOption(a.vid_lang) \o AspectOptions(p, a) \o <<Word(a.vid_file)>>
    \o LangOption(a.aud_lang) \o <<Word(a.aud_file)>>
    \o SubtitleOptions(p, a)

\* The arguments before any call
NoMuxArgs ==
    [ out_file |-> "", title |-> None, chapters |-> None, attachments |-> None,
      vid_file |-> "", vid_lang |-> None, vid_aspect |-> None, vid_pixaspect |-> None,
      vid_displaysize |-> None, aud_file |-> "", aud_lang |-> None,
      sub_file |-> None, sub_lang |-> None ]

(***************************************************************************)
(* The job: main() of any2vp9.py and of any2arch.py                        *)
(***************************************************************************)
Progs  == {"any2vp9", "any2arch"}
Passes == {"audio", "pass1", "pass2"}
Stages == {"decode", "encode"}
ProcIds == Passes \X Stages

\* subprocess.PIPE as the stdout of a decoder: the handle the parent holds
\* ( extract_proc.stdout / dec_proc.stdout ) and the children whose stdin it is
NoPipe         == [ parent |-> "none", stdin_of |-> {} ]
PopenPipe(p)   == [ pipes EXCEPT ![p] = [ parent |-> "open", stdin_of |-> {} ] ]
PopenStdin(p)  == [ pipes EXCEPT ![p].stdin_of = @ \cup {<<p, "encode">>} ]
ClosePipe(ps, p) == [ ps EXCEPT ![p].parent = "closed" ]

\* Bounds of the job's inputs
MaxChapter     == 2    \* largest --start-chapter / --end-chapter tried
MaxAttachments == 1    \* largest attachment count probed

OptChapter == {None} \cup { Some(i) : i \in 1..MaxChapter }

\* The argparse namespace.  any2arch has no -C, -E and -N options, and its
\* --dvd and --bluray are not mutually exclusive.  size and rate say whether
\* -Z and -R were given; they are tried both ways for a Blu-ray, where main
\* reads them.
CommandLines(p) ==
    { c \in [ dvd : BOOLEAN, bluray : BOOLEAN, size : BOOLEAN, rate : BOOLEAN,
              start_chapter : OptChapter, end_chapter : OptChapter,
              no_chapters : BOOLEAN, no_subtitles : BOOLEAN,
              no_attachments : BOOLEAN ] :
        /\ ~c.bluray => (~c.size /\ ~c.rate)
        /\ IF p = "any2vp9"
           THEN ~(c.dvd /\ c.bluray)
           ELSE c.start_chapter = None /\ c.end_chapter = None /\ ~c.no_subtitles }

disc_type(c) == IF c.dvd THEN "dvd" ELSE IF c.bluray THEN "bluray" ELSE "none"

AudioCodecs == {"ffvorbis", "ffflac", "ffaac", "ffac3"}

NoSrc == [ disc_type |-> "none", is_matroska |-> FALSE, has_chapters |-> FALSE,
           has_subtitles |-> FALSE, attachment_cnt |-> 0, audio_codec |-> "ffac3" ]

\* What AVExtractor.__init__ / AVFile.__init__ can store for a command line:
\* a DVD has chapters and no attachments, a Matroska file has what mkvmerge
\* reports, anything else has none of them.  any2arch extracts no DVD
\* subtitles and knows a disc as no Matroska file.
Probed(p, c) ==
    { s \in [ disc_type : {disc_type(c)}, is_matroska : BOOLEAN,
              has_chapters : BOOLEAN, has_subtitles : BOOLEAN,
              attachment_cnt : 0..MaxAttachments, audio_codec : AudioCodecs ] :
        /\ (p = "any2arch" /\ s.disc_type # "none") => ~s.is_matroska
        /\ IF s.disc_type = "dvd" /\ p = "any2vp9"
           THEN s.has_chapters /\ s.attachment_cnt = 0
           ELSE IF s.disc_type = "dvd"
           THEN s.has_chapters /\ s.attachment_cnt = 0 /\ ~s.has_subtitles
           ELSE IF s.disc_type = "bluray" /\ p = "any2arch"
           THEN ~s.has_chapters /\ s.attachment_cnt = 0 /\ ~s.has_subtitles
           ELSE s.is_matroska
                \/ (~s.has_chapters /\ s.attachment_cnt = 0 /\ ~s.has_subtitles) }

RangeRequested == chap_start # None \/ chap_end # None

\* The statements that follow each step of main
NextPhase(p, phase) ==
    IF p = "any2vp9"
    THEN CASE phase = "chapters"    -> "attachments"
           [] phase = "attachments" -> "subtitles"
           [] phase = "subtitles"   -> "audio"
           [] phase = "audio"       -> "pass1"
           [] phase = "pass1"       -> "pass2"
           [] phase = "pass2"       -> "mux"
    ELSE CASE phase = "chapters"    -> "subtitles"
           [] phase = "subtitles"   -> "attachments"
           [] phase = "attachments" -> "audio"
           [] phase = "audio"       -> "pass1"
           [] phase = "pass1"       -> "pass2"
           [] phase = "pass2"       -> "mux"

At(phase, step) == pc = <<phase, step>>
Goto(phase)     == pc' = <<phase, "begin">>

\* Abort with the temporary directory left behind
AbortKeepsWorkDir(why) ==
    /\ pc' = <<"exited", "begin">>
    /\ exit_code' = Some(1)
    /\ error' = why
    /\ work_dir' = work_dir

\* An uncaught exception, or return 1: the with block is left, which removes
\* the temporary directory, and the interpreter exits with status 1.
Abort(why) ==
    /\ pc' = <<"exited", "begin">>
    /\ exit_code' = Some(1)
    /\ error' = why
    /\ work_dir' = IF work_dir = "exists" THEN "removed" ELSE work_dir

Continue(phase) ==
    /\ Goto(phase)
    /\ UNCHANGED <<exit_code, error, work_dir>>

Init ==
    /\ prog \in Progs
    /\ cl \in CommandLines(prog)
    /\ pc = <<"start", "begin">>
    /\ src = NoSrc
    /\ procs = [ id \in ProcIds |-> "none" ]
    /\ reaped = {}
    /\ passState = [ p \in Passes |-> "NotStarted" ]
    /\ invoked = {}
    /\ work_dir = "none"
    /\ paths = [ chapters |-> FALSE, attachments |-> FALSE, subtitles |-> FALSE ]
    /\ exit_code = None
    /\ cwd = "orig"
    /\ error = ""
    /\ chapters = <<>>
    /\ chap_start = None
    /\ chap_end = None
    /\ new_chapters = <<>>
    /\ chap_file = "absent"
    /\ mux_args = NoMuxArgs
    /\ cmd = <<>>
    /\ video_framerate = 0
    /\ video_framerate_frac = <<>>
    /\ rate_cl = NoRateOptions
    /\ final_rate = <<>>
    /\ kf_max_dist = NoKfMaxDist
    /\ pipes = [ p \in Passes |-> NoPipe ]
    /\ picture_cl = NoPictureOptions
    /\ video_dimensions = <<>>
    /\ final_dimensions = <<>>
    /\ popen_args = NoPopenArgs

\* CheckCommandLine asking a Blu-ray for its size only
CheckCommandLineSizeOnly ==
    /\ At("start", "begin")
    /\ IF cl.bluray /\ ~cl.size
       THEN Abort("UsageError")
       ELSE Continue("probe")
    /\ UNCHANGED <<encVars, pipes, rateVars, muxVars, prog, cl, src, procs, reaped, passState, invoked, paths, cwd, chapVars>>

\* "Verify command line sanity"
CheckCommandLine ==
    /\ At("start", "begin")
    /\ IF cl.bluray /\ (~cl.size \/ ~cl.rate)
       THEN Abort("UsageError")
       ELSE Continue("probe")
    /\ UNCHANGED <<encVars, pipes, rateVars, muxVars, prog, cl, src, procs, reaped, passState, invoked, paths, cwd, chapVars>>

\* extractor = AVExtractor( ... ) / avfile = AVFile( ... ): the probes run
\* through check_output and the attributes are read off their text with
\* regular expressions; a failed probe or a missing match raises.
Probe ==
    /\ At("probe", "begin")
    /\ \E ok \in BOOLEAN, s \in Probed(prog, cl) :
         /\ invoked' = invoked \cup {"mplayer_probe"}
                         \cup (IF s.is_matroska /\ (prog = "any2arch" \/ s.disc_type # "dvd")
                               THEN {"mkvmerge_probe"} ELSE {})
         /\ IF ok
            THEN /\ src' = s
                 /\ chap_start' = cl.start_chapter
                 /\ chap_end' = cl.end_chapter
                 /\ Continue("workdir")
            ELSE /\ Abort("ProbeError")
                 /\ UNCHANGED <<src, chap_start, chap_end>>
    /\ UNCHANGED <<encVars, pipes, rateVars, muxVars, prog, cl, procs, reaped, passState, paths, cwd,
                   chapters, new_chapters, chap_file>>

\* with tempfile.TemporaryDirectory( ... ) as work_dir:
CreateWorkDir ==
    /\ At("workdir", "begin")
    /\ work_dir' = "exists"
    /\ Goto("chapters")
    /\ UNCHANGED <<encVars, pipes, rateVars, muxVars, prog, cl, src, procs, reaped, passState, invoked, paths,
                   exit_code, cwd, error, chapVars>>

(***************************************************************************)
(* Chapters                                                                *)
(***************************************************************************)
\* Timestamps the chapter tool can print, HH:MM:SS.mmm
Stamps == { <<0, 0, 0, 0>>, <<0, 0, 10, 0>>, <<0, 0, 25, 0>>, <<0, 59, 59, 999>>,
            <<24, 0, 0, 0>>, <<25, 0, 10, 0>> }

MaxChapters == 3    \* longest chapter list tried

\* The title line the tool prints for chapter i: the name stored in the
\* source, which may be an automatic "Chapter 01" / "Chapter 1" or free text.
TitleForms == {"auto2", "auto", "text"}
TitleLine(i, form) ==
    CASE form = "auto2" -> Title1Line(Zfill(Str(i), 2), Zfill(Str(i), 2))
      [] form = "auto"  -> Title1Line(Zfill(Str(i), 2), Str(i))
      [] form = "text"  -> Title2Line(Zfill(Str(i), 2), <<"Intro">>)
      [] form = "broken" -> Title2Line(Zfill(Str(i), 2), <<"Part", "U+2028", "Two">>)

\* The i-th smallest timestamp of a set
RECURSIVE NthStamp(_, _)
NthStamp(S, i) ==
    LET m == CHOOSE t \in S : \A u \in S : timedelta(t) <= timedelta(u)
    IN  IF i = 1 THEN m ELSE NthStamp(S \ {m}, i - 1)

\* The text of a chapter list: chapters 1..n, CHAPTERnn= and CHAPTERnnNAME=
\* lines in pairs, two-digit indices, timestamps strictly increasing.
ChapterText(S, forms) ==
    [ k \in 1..(2 * Cardinality(S)) |->
        IF k % 2 = 1
        THEN TimeLine(Zfill(Str((k + 1) \div 2), 2), NthStamp(S, (k + 1) \div 2))
        ELSE TitleLine(k \div 2, forms[k \div 2]) ]

ChapterTexts(n) ==
    { ChapterText(S, forms) :
        S \in { T \in SUBSET Stamps : Cardinality(T) = n },
        forms \in [ 1..n -> TitleForms ] }

\* What the chapter tool prints in a job
JobStamps == { <<0, 0, 0, 0>>, <<0, 0, 10, 0>> }
JobChapterTexts ==
    { ChapterText({ t \in JobStamps : timedelta(t) < n * 10000 }, [ i \in 1..n |-> "auto2" ]) :
        n \in 1..Cardinality(JobStamps) }

\* extractor.extract_chapters( chapters_path ) on the tool output chs
\* (any2vp9), avfile.extract_chapters( chapters_path ) (any2arch, which
\* asserts has_chapters, opens the file and lets the tool write it unchanged).
ExtractChaptersCall(chs, ok, next) ==
    IF prog = "any2vp9"
    THEN IF ~src.is_matroska /\ src.disc_type # "dvd"
         THEN /\ Abort("NoChapters")
              /\ UNCHANGED <<invoked, chapters, new_chapters, chap_file, paths>>
         ELSE /\ invoked' = invoked \cup {IF src.is_matroska THEN "mkvextract_chapters"
                                                             ELSE "dvdxchap"}
              /\ IF ~ok
                 THEN /\ Abort("CalledProcessError")
                      /\ UNCHANGED <<chapters, new_chapters, chap_file, paths>>
                 ELSE LET r == extract_chapters(chs, chap_start, chap_end)
                      IN  /\ chapters' = chs
                          /\ IF r.raised
                             THEN /\ Abort("StartChapterNotFound")
                                  /\ UNCHANGED <<new_chapters, chap_file, paths>>
                             ELSE /\ new_chapters' = r.text
                                  /\ chap_file' = "written"
                                  /\ paths' = [paths EXCEPT !.chapters = TRUE]
                                  /\ Continue(next)
    ELSE IF ~src.has_chapters
    THEN /\ Abort("AssertionError")
         /\ UNCHANGED <<invoked, chapters, new_chapters, chap_file, paths>>
    ELSE /\ chap_file' = "written"
         /\ invoked' = invoked \cup (IF src.is_matroska THEN {"mkvextract_chapters"}
                                     ELSE IF src.disc_type = "dvd" THEN {"dvdxchap"} ELSE {})
         /\ IF ~ok
            THEN /\ Abort("CalledProcessError")
                 /\ UNCHANGED <<chapters, new_chapters, paths>>
            ELSE /\ chapters' = chs
                 /\ new_chapters' = chs
                 /\ paths' = [paths EXCEPT !.chapters = TRUE]
                 /\ Continue(next)

\* Chapters refusing a sub-range on a source without chapters
ChaptersStrict ==
    /\ At("chapters", "begin")
    /\ IF src.has_chapters /\ ~cl.no_chapters
       THEN \E chs \in JobChapterTexts, ok \in BOOLEAN :
                ExtractChaptersCall(chs, ok, NextPhase(prog, "chapters"))
       ELSE /\ IF RangeRequested /\ ~src.has_chapters
               THEN Abort("ChapterRangeError")
               ELSE Continue(NextPhase(prog, "chapters"))
            /\ UNCHANGED <<invoked, chapters, new_chapters, chap_file, paths>>
    /\ UNCHANGED <<encVars, pipes, rateVars, muxVars, prog, cl, src, procs, reaped, passState, cwd, chap_start, chap_end>>

\* "# Chapters"
Chapters ==
    /\ At("chapters", "begin")
    /\ IF src.has_chapters /\ ~cl.no_chapters
       THEN \E chs \in JobChapterTexts, ok \in BOOLEAN :
                ExtractChaptersCall(chs, ok, NextPhase(prog, "chapters"))
       ELSE /\ Continue(NextPhase(prog, "chapters"))
            /\ UNCHANGED <<invoked, chapters, new_chapters, chap_file, paths>>
    /\ UNCHANGED <<encVars, pipes, rateVars, muxVars, prog, cl, src, procs, reaped, passState, cwd, chap_start, chap_end>>

(***************************************************************************)
(* Attachments and subtitles                                               *)
(***************************************************************************)
\* extract_attachments( directory ): make the directory, change into it, run
\* mkvextract attachments, change back.  A failing mkvextract raises out of
\* check_call, past the second chdir.  any2arch asserts that there is an
\* attachment and does nothing for a source that is no Matroska file.
ExtractAttachmentsCall(ok, next) ==
    IF prog = "any2arch" /\ src.attachment_cnt = 0
    THEN /\ Abort("AssertionError")
         /\ UNCHANGED <<invoked, cwd, paths>>
    ELSE IF prog = "any2arch" /\ ~src.is_matroska
    THEN /\ paths' = [paths EXCEPT !.attachments = TRUE]
         /\ Continue(next)
         /\ UNCHANGED <<invoked, cwd>>
    ELSE /\ invoked' = invoked \cup {"mkvextract_attachments"}
         /\ IF ok
            THEN /\ cwd' = cwd
                 /\ paths' = [paths EXCEPT !.attachments = TRUE]
                 /\ Continue(next)
            ELSE /\ cwd' = "attachments"
                 /\ Abort("CalledProcessError")
                 /\ UNCHANGED paths

\* "# Attachments".  any2vp9 reads extractor.attachments_cnt in the print
\* before the call; __init__ stores attachment_cnt, so the read raises
\* AttributeError.
Attachments ==
    /\ At("attachments", "begin")
    /\ IF src.attachment_cnt > 0 /\ ~cl.no_attachments
       THEN IF prog = "any2vp9"
            THEN /\ Abort("AttributeError: attachments_cnt")
                 /\ UNCHANGED <<invoked, cwd, paths>>
            ELSE \E ok \in BOOLEAN :
                   ExtractAttachmentsCall(ok, NextPhase(prog, "attachments"))
       ELSE /\ Continue(NextPhase(prog, "attachments"))
            /\ UNCHANGED <<invoked, cwd, paths>>
    /\ UNCHANGED <<encVars, pipes, rateVars, muxVars, prog, cl, src, procs, reaped, passState, chapVars>>

\* The tool extract_subtitles runs: mkvextract tracks for a Matroska file,
\* mencoder -vobsubout for a DVD (any2vp9 only), else none.
SubtitleTool ==
    IF src.is_matroska THEN {"mkvextract_tracks_subtitles"}
    ELSE IF src.disc_type = "dvd" /\ prog = "any2vp9" THEN {"mencoder_vobsub"}
    ELSE {}

\* extract_subtitles with the has_subtitles test left out
ExtractSubtitlesUnguarded(ok, next) ==
    IF SubtitleTool = {}
    THEN IF prog = "any2vp9"
         THEN /\ Abort("NoSubtitles")
              /\ UNCHANGED <<invoked, paths>>
         ELSE /\ paths' = [paths EXCEPT !.subtitles = TRUE]
              /\ Continue(next)
              /\ UNCHANGED invoked
    ELSE /\ invoked' = invoked \cup SubtitleTool
         /\ IF ok
            THEN /\ paths' = [paths EXCEPT !.subtitles = TRUE]
                 /\ Continue(next)
            ELSE /\ Abort("CalledProcessError")
                 /\ UNCHANGED paths

\* extract_subtitles( filename ): without subtitles any2vp9 raises the
\* exception of its else branch and any2arch fails its assert; with them the
\* tool runs, or nothing at all does on a source any2arch has no tool for.
ExtractSubtitlesCall(ok, next) ==
    IF ~src.has_subtitles
    THEN /\ Abort(IF prog = "any2vp9" THEN "NoSubtitles" ELSE "AssertionError")
         /\ UNCHANGED <<invoked, paths>>
    ELSE IF SubtitleTool = {}
    THEN IF prog = "any2vp9"
         THEN /\ Abort("NoSubtitles")
              /\ UNCHANGED <<invoked, paths>>
         ELSE /\ paths' = [paths EXCEPT !.subtitles = TRUE]
              /\ Continue(next)
              /\ UNCHANGED invoked
    ELSE /\ invoked' = invoked \cup SubtitleTool
         /\ IF ok
            THEN /\ paths' = [paths EXCEPT !.subtitles = TRUE]
                 /\ Continue(next)
            ELSE /\ Abort("CalledProcessError")
                 /\ UNCHANGED paths

\* "# Subtitles"
Subtitles ==
    /\ At("subtitles", "begin")
    /\ IF src.has_subtitles /\ (prog = "any2arch" \/ ~cl.no_subtitles)
       THEN \E ok \in BOOLEAN :
              ExtractSubtitlesCall(ok, NextPhase(prog, "subtitles"))
       ELSE /\ Continue(NextPhase(prog, "subtitles"))
            /\ UNCHANGED <<invoked, paths>>
    /\ UNCHANGED <<encVars, pipes, rateVars, muxVars, prog, cl, src, procs, reaped, passState, cwd, chapVars>>

(***************************************************************************)
(* Decode | encode pipes                                                   *)
(***************************************************************************)
Exited == {"exit0", "exit1"}

\* A child runs on its own and exits with status zero or non-zero (watched
\* for as long as the job itself runs).
ProcExit(p, st) ==
    /\ exit_code = None
    /\ procs[<<p, st>>] = "running"
    /\ \E status \in Exited : procs' = [procs EXCEPT ![<<p, st>>] = status]
    /\ UNCHANGED <<encVars, pipes, rateVars, muxVars, prog, cl, pc, src, reaped, passState, invoked, work_dir, paths,
                   exit_code, cwd, error, chapVars>>

\* The test main makes before its audio step: copy the Vorbis track out
NativeVorbis ==
    IF prog = "any2vp9"
    THEN src.is_matroska /\ chap_start = None /\ chap_end = None
         /\ src.audio_codec = "ffvorbis"
    ELSE src.is_matroska /\ src.audio_codec = "ffvorbis"

\* The test of AVExtractor.decode_audio: read the FLAC track with mkvextract
NativeFlac ==
    src.is_matroska /\ chap_start = None /\ chap_end = None
    /\ src.audio_codec = "ffflac"

\* "# Audio" of any2vp9.  extract_audio and the FLAC branch of decode_audio
\* read self.__mkvmerge_probe_out, which __init__ never stores (the probe
\* text is a local there): AttributeError before any process is started.
\* Otherwise decode_audio() starts mplayer with its stdout on a pipe.
AudioBegin ==
    /\ prog = "any2vp9"
    /\ At("audio", "begin")
    /\ IF NativeVorbis \/ NativeFlac
       THEN /\ Abort("AttributeError: __mkvmerge_probe_out")
            /\ UNCHANGED <<procs, passState, pipes>>
       ELSE /\ procs' = [procs EXCEPT ![<<"audio", "decode">>] = "running"]
            /\ pipes' = PopenPipe("audio")
            /\ passState' = [passState EXCEPT !["audio"] = "Running"]
            /\ pc' = <<"audio", "launch_enc">>
            /\ UNCHANGED <<exit_code, error, work_dir>>
    /\ UNCHANGED <<encVars, rateVars, muxVars, prog, cl, src, reaped, invoked, paths, cwd, chapVars>>

\* The audio step of any2arch: check_call after check_call on files in the
\* work directory, each of which may fail.
ArchAudioTools ==
    IF src.is_matroska /\ src.audio_codec = "ffvorbis"
    THEN <<"mkvextract_tracks_audio">>
    ELSE IF src.is_matroska /\ src.audio_codec = "ffflac"
    THEN <<"mkvextract_tracks_audio", "oggenc">>
    ELSE IF src.is_matroska /\ src.audio_codec = "ffaac"
    THEN <<"mkvextract_tracks_audio", "faad", "oggenc">>
    ELSE <<"mplayer_audio", "oggenc">>

ArchAudio ==
    /\ prog = "any2arch"
    /\ At("audio", "begin")
    /\ \E n \in 1..(Len(ArchAudioTools) + 1) :
         /\ invoked' = invoked \cup
                { ArchAudioTools[i] : i \in { j \in 1..Len(ArchAudioTools) : j <= n } }
         /\ IF n <= Len(ArchAudioTools)
            THEN Abort("CalledProcessError")
            ELSE Continue(NextPhase(prog, "audio"))
    /\ UNCHANGED <<encVars, pipes, rateVars, muxVars, prog, cl, src, procs, reaped, passState, paths, cwd, chapVars>>

\* extractor.decode_video( ... ) / avfile.start_decode_video( ... ): Popen
\* of mencoder with its stdout on a pipe, evaluated before the encoder runs
LaunchDecode(p) ==
    /\ p \in {"pass1", "pass2"}
    /\ At(p, "begin")
    /\ procs' = [procs EXCEPT ![<<p, "decode">>] = "running"]
    /\ pipes' = PopenPipe(p)
    /\ passState' = [passState EXCEPT ![p] = "Running"]
    /\ pc' = <<p, "launch_enc">>
    /\ UNCHANGED <<encVars, rateVars, muxVars, prog, cl, src, reaped, invoked, work_dir, paths, exit_code, cwd,
                   error, chapVars>>

\* LaunchEncode without the close: the parent keeps its handle
LaunchEncodeKeepsPipe(p) ==
    /\ At(p, "launch_enc")
    /\ procs' = [procs EXCEPT ![<<p, "encode">>] = "running"]
    /\ pipes' = PopenStdin(p)
    /\ pc' = <<p, "wait_dec">>
    /\ UNCHANGED <<encVars, rateVars, muxVars, prog, cl, src, reaped, passState, invoked, work_dir, paths,
                   exit_code, cwd, error, chapVars>>

\* enc_proc = subprocess.Popen( ..., stdin=extract_proc.stdout, ... )
\* extract_proc.stdout.close()
LaunchEncode(p) ==
    /\ At(p, "launch_enc")
    /\ procs' = [procs EXCEPT ![<<p, "encode">>] = "running"]
    /\ pipes' = ClosePipe(PopenStdin(p), p)
    /\ pc' = <<p, "wait_dec">>
    /\ UNCHANGED <<encVars, rateVars, muxVars, prog, cl, src, reaped, passState, invoked, work_dir, paths,
                   exit_code, cwd, error, chapVars>>

\* WaitDecode with the job starting the pass again after a decode failure
WaitDecodeRetry(p) ==
    /\ At(p, "wait_dec")
    /\ procs[<<p, "decode">>] \in Exited
    /\ reaped' = reaped \cup {<<p, "decode">>}
    /\ IF procs[<<p, "decode">>] # "exit0"
       THEN /\ passState' = [passState EXCEPT ![p] = "DecodeFailed"]
            /\ pc' = <<p, "begin">>
            /\ UNCHANGED <<exit_code, error, work_dir>>
       ELSE /\ pc' = <<p, "wait_enc">>
            /\ UNCHANGED <<passState, exit_code, error, work_dir>>
    /\ UNCHANGED <<encVars, pipes, rateVars, muxVars, prog, cl, src, procs, invoked, paths, cwd, chapVars>>

\* WaitDecode with the decoder's status dropped: only the encoder's counts
WaitDecodeMasked(p) ==
    /\ At(p, "wait_dec")
    /\ procs[<<p, "decode">>] \in Exited
    /\ reaped' = reaped \cup {<<p, "decode">>}
    /\ pc' = <<p, "wait_enc">>
    /\ UNCHANGED <<passState, exit_code, error, work_dir>>
    /\ UNCHANGED <<encVars, pipes, rateVars, muxVars, prog, cl, src, procs, invoked, paths, cwd, chapVars>>

\* if extract_proc.wait(): raise Exception( 'Error occurred in decoding process!' )
WaitDecode(p) ==
    /\ At(p, "wait_dec")
    /\ procs[<<p, "decode">>] \in Exited
    /\ reaped' = reaped \cup {<<p, "decode">>}
    /\ IF procs[<<p, "decode">>] # "exit0"
       THEN /\ passState' = [passState EXCEPT ![p] = "DecodeFailed"]
            /\ Abort("DecodeError")
       ELSE /\ pc' = <<p, "wait_enc">>
            /\ UNCHANGED <<passState, exit_code, error, work_dir>>
    /\ UNCHANGED <<encVars, pipes, rateVars, muxVars, prog, cl, src, procs, invoked, paths, cwd, chapVars>>

\* WaitEncode with the encoder's status dropped
WaitEncodeUnchecked(p) ==
    /\ At(p, "wait_enc")
    /\ procs[<<p, "encode">>] \in Exited
    /\ reaped' = reaped \cup {<<p, "encode">>}
    /\ passState' = [passState EXCEPT ![p] = "Success"]
    /\ Continue(NextPhase(prog, p))
    /\ UNCHANGED <<encVars, pipes, rateVars, muxVars, prog, cl, src, procs, invoked, paths, cwd, chapVars>>

\* if enc_proc.wait(): raise Exception( 'Error occurred in encoding process!' )
WaitEncode(p) ==
    /\ At(p, "wait_enc")
    /\ procs[<<p, "encode">>] \in Exited
    /\ reaped' = reaped \cup {<<p, "encode">>}
    /\ IF procs[<<p, "encode">>] # "exit0"
       THEN /\ passState' = [passState EXCEPT ![p] = "EncodeFailed"]
            /\ Abort("EncodeError")
       ELSE /\ passState' = [passState EXCEPT ![p] = "Success"]
            /\ Continue(NextPhase(prog, p))
    /\ UNCHANGED <<encVars, pipes, rateVars, muxVars, prog, cl, src, procs, invoked, paths, cwd, chapVars>>

(***************************************************************************)
(* Mux and the way out                                                     *)
(***************************************************************************)
\* What glob can return for a directory holding the files of S
Listings(S) ==
    { l \in [ 1..Cardinality(S) -> S ] : \A i, j \in DOMAIN l : l[i] = l[j] => i = j }

\* The arguments main hands to the mux: the paths of the artifacts it made;
\* title, languages and aspect are options of the command line, not given
\* here.
MainMuxArgs(listing) ==
    [ NoMuxArgs EXCEPT
        !.out_file = "out.mkv", !.vid_file = "video", !.aud_file = "audio",
        !.chapters = IF paths.chapters THEN Some("chapters") ELSE None,
        !.attachments = IF paths.attachments THEN Some(listing) ELSE None,
        !.sub_file = IF paths.subtitles THEN Some("subtitles") ELSE None ]

\* mux_matroska_mkv( ... ) / mux_matroska( ... ): the command is put
\* together and run through check_call
MuxCall(a, ok, next) ==
    /\ mux_args' = a
    /\ cmd' = mux_matroska(prog, a)
    /\ invoked' = invoked \cup {"mkvmerge"}
    /\ IF ok THEN Continue(next) ELSE Abort("CalledProcessError")

\* "# Mux"
Mux ==
    /\ At("mux", "begin")
    /\ \E ok \in BOOLEAN, listing \in Listings(1..src.attachment_cnt) :
         MuxCall(MainMuxArgs(listing), ok, "cleanup")
    /\ UNCHANGED <<encVars, pipes, rateVars, prog, cl, src, procs, reaped, passState, paths, cwd, chapVars>>

\* os.path.getsize( command_line.input ) as any2arch reads it for its file
\* size ratio: a file that was probed has bytes, a DVD may be an image file,
\* a directory or a device node, and a device node has size 0.
InputSizes == IF cl.dvd THEN {"zero", "positive"} ELSE {"positive"}

\* The with block ends: the temporary directory is removed.  any2arch then
\* prints output size / input size unless the source is a Blu-ray, dividing
\* by zero for an input of size 0; return 0
Finish ==
    /\ At("cleanup", "begin")
    /\ work_dir' = "removed"
    /\ pc' = <<"exited", "begin">>
    /\ IF prog = "any2arch" /\ ~cl.bluray
       THEN \E size \in InputSizes :
              IF size = "zero"
              THEN exit_code' = Some(1) /\ error' = "ZeroDivisionError"
              ELSE exit_code' = Some(0) /\ error' = error
       ELSE exit_code' = Some(0) /\ error' = error
    /\ UNCHANGED <<encVars, pipes, rateVars, muxVars, prog, cl, src, procs, reaped, passState, invoked, paths, cwd,
                   chapVars>>

Next ==
    \/ CheckCommandLine
    \/ Probe
    \/ CreateWorkDir
    \/ Chapters
    \/ Attachments
    \/ Subtitles
    \/ AudioBegin
    \/ ArchAudio
    \/ \E p \in Passes : LaunchDecode(p)
    \/ \E p \in Passes : LaunchEncode(p)
    \/ \E p \in Passes : WaitDecode(p)
    \/ \E p \in Passes : WaitEncode(p)
    \/ \E p \in Passes, st \in Stages : ProcExit(p, st)
    \/ Mux
    \/ Finish

Spec == Init /\ [][Next]_vars

(***************************************************************************)
(* extract_chapters on its own: a probed extractor of a source with        *)
(* chapters, called once with every chapter text and sub-range             *)
(***************************************************************************)
MaxChapIndex == 4    \* largest chap_start / chap_end tried against the lists

OptChapIndex == {None} \cup { Some(i) : i \in 1..MaxChapIndex }

AllChapterTexts == UNION { ChapterTexts(n) : n \in 0..MaxChapters }

InitChapters ==
    /\ prog = "any2vp9"
    /\ cl \in { c \in CommandLines("any2vp9") :
                  /\ c.start_chapter = None /\ c.end_chapter = None
                  /\ ~c.bluray /\ ~c.no_chapters /\ ~c.no_subtitles /\ ~c.no_attachments }
    /\ pc = <<"extract_chapters", "begin">>
    /\ src = [ NoSrc EXCEPT !.disc_type = disc_type(cl), !.is_matroska = ~cl.dvd,
                            !.has_chapters = TRUE ]
    /\ procs = [ id \in ProcIds |-> "none" ]
    /\ reaped = {}
    /\ passState = [ p \in Passes |-> "NotStarted" ]
    /\ invoked = {}
    /\ work_dir = "exists"
    /\ paths = [ chapters |-> FALSE, attachments |-> FALSE, subtitles |-> FALSE ]
    /\ exit_code = None
    /\ cwd = "orig"
    /\ error = ""
    /\ chapters = <<>>
    /\ chap_start \in OptChapIndex
    /\ chap_end \in OptChapIndex
    /\ new_chapters = <<>>
    /\ chap_file = "absent"
    /\ mux_args = NoMuxArgs
    /\ cmd = <<>>
    /\ video_framerate = 0
    /\ video_framerate_frac = <<>>
    /\ rate_cl = NoRateOptions
    /\ final_rate = <<>>
    /\ kf_max_dist = NoKfMaxDist
    /\ pipes = [ p \in Passes |-> NoPipe ]
    /\ picture_cl = NoPictureOptions
    /\ video_dimensions = <<>>
    /\ final_dimensions = <<>>
    /\ popen_args = NoPopenArgs

ExtractChaptersUnit ==
    /\ At("extract_chapters", "begin")
    /\ \E chs \in AllChapterTexts, ok \in BOOLEAN :
           ExtractChaptersCall(chs, ok, "returned")
    /\ UNCHANGED <<encVars, pipes, rateVars, muxVars, prog, cl, src, procs, reaped, passState, cwd, chap_start, chap_end>>

NextChapters == ExtractChaptersUnit

SpecChapters == InitChapters /\ [][NextChapters]_vars

(***************************************************************************)
(* extract_chapters on the titles: the same call, the chapter names being  *)
(* automatic, free text, or free text that holds a line boundary           *)
(***************************************************************************)
MaxTitled == 3    \* longest chapter list tried with every form of title

TitledForms == TitleForms \cup {"broken"}

TitledTexts ==
    UNION { { ChapterText({ NthStamp(Stamps, i) : i \in 1..n }, forms) :
                forms \in [ 1..n -> TitledForms ] } : n \in 0..MaxTitled }

ExtractChaptersTitled ==
    /\ At("extract_chapters", "begin")
    /\ \E chs \in TitledTexts, ok \in BOOLEAN :
           ExtractChaptersCall(chs, ok, "returned")
    /\ UNCHANGED <<encVars, pipes, rateVars, muxVars, prog, cl, src, procs, reaped, passState, cwd, chap_start, chap_end>>

NextTitles == ExtractChaptersTitled

SpecTitles == InitChapters /\ [][NextTitles]_vars

(***************************************************************************)
(* The extractor's methods called on their own: the script run as a        *)
(* program, or a probed AVExtractor / AVFile whose extract_chapters,       *)
(* extract_subtitles or extract_attachments is called once                 *)
(***************************************************************************)
Methods == {"extract_chapters", "extract_subtitles", "extract_attachments"}

InitCalls ==
    /\ prog \in Progs
    /\ cl \in { c \in CommandLines(prog) :
                  /\ c.start_chapter = None /\ c.end_chapter = None
                  /\ c.bluray => (c.size /\ c.rate)
                  /\ ~c.no_chapters /\ ~c.no_subtitles /\ ~c.no_attachments }
    /\ pc \in { <<"call", m>> : m \in Methods }
    /\ src \in Probed(prog, cl)
    /\ procs = [ id \in ProcIds |-> "none" ]
    /\ reaped = {}
    /\ passState = [ p \in Passes |-> "NotStarted" ]
    /\ invoked = {}
    /\ work_dir = "exists"
    /\ paths = [ chapters |-> FALSE, attachments |-> FALSE, subtitles |-> FALSE ]
    /\ exit_code = None
    /\ cwd = "orig"
    /\ error = ""
    /\ chapters = <<>>
    /\ chap_start = None
    /\ chap_end = None
    /\ new_chapters = <<>>
    /\ chap_file = "absent"
    /\ mux_args = NoMuxArgs
    /\ cmd = <<>>
    /\ video_framerate = 0
    /\ video_framerate_frac = <<>>
    /\ rate_cl = NoRateOptions
    /\ final_rate = <<>>
    /\ kf_max_dist = NoKfMaxDist
    /\ pipes = [ p \in Passes |-> NoPipe ]
    /\ picture_cl = NoPictureOptions
    /\ video_dimensions = <<>>
    /\ final_dimensions = <<>>
    /\ popen_args = NoPopenArgs

CallExtractChapters ==
    /\ At("call", "extract_chapters")
    /\ \E chs \in JobChapterTexts, ok \in BOOLEAN :
           ExtractChaptersCall(chs, ok, "returned")
    /\ UNCHANGED <<encVars, pipes, rateVars, muxVars, prog, cl, src, procs, reaped, passState, cwd, chap_start, chap_end>>

CallExtractSubtitles ==
    /\ At("call", "extract_subtitles")
    /\ \E ok \in BOOLEAN : ExtractSubtitlesCall(ok, "returned")
    /\ UNCHANGED <<encVars, pipes, rateVars, muxVars, prog, cl, src, procs, reaped, passState, cwd, chapVars>>

CallExtractAttachments ==
    /\ At("call", "extract_attachments")
    /\ \E ok \in BOOLEAN : ExtractAttachmentsCall(ok, "returned")
    /\ UNCHANGED <<encVars, pipes, rateVars, muxVars, prog, cl, src, procs, reaped, passState, chapVars>>

NextCalls ==
    \/ CallExtractChapters
    \/ CallExtractSubtitles
    \/ CallExtractAttachments

SpecCalls == (Init \/ InitCalls) /\ [][Next \/ NextCalls]_vars

(***************************************************************************)
(* The mux on its own: mux_matroska_mkv / mux_matroska called once with    *)
(* every combination of arguments main can hand over                       *)
(***************************************************************************)
MaxFiles == 2    \* most files tried in the attachment directory

Langs == {"eng", "jpn"}
Opt(S) == {None} \cup { Some(x) : x \in S }

GivenAspects(a) ==
    { f \in {"vid_aspect", "vid_pixaspect", "vid_displaysize"} : a[f] # None }

\* any2vp9 takes -a, -x and -z in one mutually exclusive group and never gets
\* as far as the mux with an attachment directory (see Attachments); any2arch
\* takes any of its three aspect options together.
MuxArgs(p) ==
    { a \in [ out_file : {"out.mkv"}, title : Opt({"Title"}), chapters : Opt({"chapters"}),
              attachments : Opt(UNION { Listings(S) : S \in SUBSET (1..MaxFiles) }),
              vid_file : {"video"}, vid_lang : Opt(Langs),
              vid_aspect : Opt({<<16, 9>>}), vid_pixaspect : Opt({<<8, 9>>}),
              vid_displaysize : Opt({<<1280, 720>>}),
              aud_file : {"audio"}, aud_lang : Opt(Langs),
              sub_file : Opt({"subtitles"}), sub_lang : Opt(Langs) ] :
        p = "any2vp9" => (Cardinality(GivenAspects(a)) <= 1 /\ a.attachments = None) }

InitMux ==
    /\ prog \in Progs
    /\ cl \in { c \in CommandLines(prog) :
                  /\ c.start_chapter = None /\ c.end_chapter = None
                  /\ ~c.dvd /\ ~c.bluray
                  /\ ~c.no_chapters /\ ~c.no_subtitles /\ ~c.no_attachments }
    /\ pc = <<"call", "mux_matroska">>
    /\ src = NoSrc
    /\ procs = [ id \in ProcIds |-> "none" ]
    /\ reaped = {}
    /\ passState = [ p \in Passes |-> "NotStarted" ]
    /\ invoked = {}
    /\ work_dir = "exists"
    /\ paths = [ chapters |-> FALSE, attachments |-> FALSE, subtitles |-> FALSE ]
    /\ exit_code = None
    /\ cwd = "orig"
    /\ error = ""
    /\ chapters = <<>>
    /\ chap_start = None
    /\ chap_end = None
    /\ new_chapters = <<>>
    /\ chap_file = "absent"
    /\ mux_args \in MuxArgs(prog)
    /\ cmd = <<>>
    /\ video_framerate = 0
    /\ video_framerate_frac = <<>>
    /\ rate_cl = NoRateOptions
    /\ final_rate = <<>>
    /\ kf_max_dist = NoKfMaxDist
    /\ pipes = [ p \in Passes |-> NoPipe ]
    /\ picture_cl = NoPictureOptions
    /\ video_dimensions = <<>>
    /\ final_dimensions = <<>>
    /\ popen_args = NoPopenArgs

CallMux ==
    /\ At("call", "mux_matroska")
    /\ \E ok \in BOOLEAN : MuxCall(mux_args, ok, "returned")
    /\ UNCHANGED <<encVars, pipes, rateVars, prog, cl, src, procs, reaped, passState, paths, cwd, chapVars>>

NextMux == CallMux

SpecMux == InitMux /\ [][NextMux]_vars

(***************************************************************************)
(* The frame rate on its own: from the probe text to the kf_max_dist of    *)
(* the two encoder passes                                                  *)
(***************************************************************************)
MaxFps == 8    \* largest whole frame rate tried beside the broadcast rates

\* The "... fps" texts tried, in thousandths: the NTSC rates, 25.000, and
\* n.000, n.100, n.500 and n.667
ProbedRates ==
    {23976, 29970, 59940, 25000}
        \cup { 1000 * n + t : n \in 1..MaxFps, t \in {0, 100, 500, 667} }

\* -R N D
ForcedRates == { <<25, 1>>, <<30000, 1001>> }

RateOptions == [ ivtc : BOOLEAN, deinterlace : BOOLEAN, rate : Opt(ForcedRates) ]

BigPair(r) == <<BigOfInt(r[1]), BigOfInt(r[2])>>

InitRate ==
    /\ prog \in Progs
    /\ cl \in { c \in CommandLines(prog) :
                  /\ c.start_chapter = None /\ c.end_chapter = None
                  /\ ~c.dvd /\ ~c.bluray
                  /\ ~c.no_chapters /\ ~c.no_subtitles /\ ~c.no_attachments }
    /\ pc = <<"rate", "probe">>
    /\ src = NoSrc
    /\ procs = [ id \in ProcIds |-> "none" ]
    /\ reaped = {}
    /\ passState = [ p \in Passes |-> "NotStarted" ]
    /\ invoked = {}
    /\ work_dir = "none"
    /\ paths = [ chapters |-> FALSE, attachments |-> FALSE, subtitles |-> FALSE ]
    /\ exit_code = None
    /\ cwd = "orig"
    /\ error = ""
    /\ chapters = <<>>
    /\ chap_start = None
    /\ chap_end = None
    /\ new_chapters = <<>>
    /\ chap_file = "absent"
    /\ mux_args = NoMuxArgs
    /\ cmd = <<>>
    /\ video_framerate = 0
    /\ video_framerate_frac = <<>>
    /\ rate_cl \in RateOptions
    /\ final_rate = <<>>
    /\ kf_max_dist = NoKfMaxDist
    /\ pipes = [ p \in Passes |-> NoPipe ]
    /\ picture_cl = NoPictureOptions
    /\ video_dimensions = <<>>
    /\ final_dimensions = <<>>
    /\ popen_args = NoPopenArgs

RateStep(next) ==
    /\ pc' = <<"rate", next>>
    /\ UNCHANGED <<prog, cl, src, procs, reaped, passState, invoked, work_dir, paths,
                   exit_code, cwd, error, chapVars, muxVars, rate_cl, pipes, picture_cl>>

\* The constructor reads the picture size and the rate of the probe text;
\* AVFile then stores the rate of -R over it.
StoredRate(k) ==
    IF prog = "any2arch" /\ rate_cl.rate # None
    THEN BigPair(Val(rate_cl.rate))
    ELSE framerate_frac(k)

ProbeFrameRate ==
    /\ At("rate", "probe")
    /\ \E k \in ProbedRates :
         /\ video_framerate' = k
         /\ video_framerate_frac' = StoredRate(k)
    /\ video_dimensions' = <<720, 480>>
    /\ RateStep("final")
    /\ UNCHANGED <<final_rate, kf_max_dist, final_dimensions, popen_args>>

\* main works out the picture size and the rate of the encoder: any2vp9 as final_rate, doubled
\* for a deinterlaced picture and put in lowest terms, any2arch as
\* out_video_framerate.
FinalRate ==
    /\ At("rate", "final")
    /\ LET given == IF rate_cl.ivtc THEN BigPair(<<24000, 1001>>)
                    ELSE IF prog = "any2vp9" /\ rate_cl.rate # None
                    THEN BigPair(Val(rate_cl.rate))
                    ELSE video_framerate_frac
           twice == IF rate_cl.deinterlace
                    THEN <<BigMulAdd(given[1], 2, 0), given[2]>> ELSE given
       IN  final_rate' = IF prog = "any2vp9" THEN Fraction(twice[1], twice[2]) ELSE given
    /\ final_dimensions' =
           IF picture_cl.scale # None THEN Val(picture_cl.scale)
           ELSE IF picture_cl.crop # None THEN SubSeq(Val(picture_cl.crop), 1, 2)
           ELSE video_dimensions
    /\ RateStep("pass1")
    /\ UNCHANGED <<video_framerate, video_framerate_frac, kf_max_dist, video_dimensions,
                   popen_args>>

\* The decoder main starts for a video pass
DecoderArgs ==
    IF prog = "any2vp9"
    THEN decode_video(cl.dvd \/ picture_cl.post_process, picture_cl.scale, picture_cl.crop,
                      rate_cl.deinterlace, rate_cl.ivtc, rate_cl.rate)
    ELSE start_decode_video(rate_cl.deinterlace, rate_cl.ivtc, picture_cl.crop,
                            picture_cl.scale)

\* A video pass: the decoder is started, then the encoder on its output
EncodePass(p, pass, out, next) ==
    /\ At("rate", p)
    /\ kf_max_dist' = [ kf_max_dist EXCEPT ![p] = Some(kf_max_dist_of(final_rate)) ]
    /\ popen_args' = [ popen_args EXCEPT ![p] =
           Some([ dec |-> DecoderArgs,
                  enc |-> vpxenc(prog, pass, out, "vpx_stats",
                                 final_dimensions, final_rate, picture_cl.high_quality) ]) ]
    /\ RateStep(next)
    /\ UNCHANGED <<video_framerate, video_framerate_frac, final_rate, video_dimensions,
                   final_dimensions>>

EncodePass1 == EncodePass("pass1", 1, "os.devnull", "pass2")
EncodePass2 == EncodePass("pass2", 2, "video.ivf", "done")

NextRate ==
    \/ ProbeFrameRate
    \/ FinalRate
    \/ EncodePass1
    \/ EncodePass2

SpecRate == InitRate /\ [][NextRate]_vars

(***************************************************************************)
(* The two video passes on their own: a probed source, every picture and   *)
(* rate option, from the final size and rate to the two encoder commands   *)
(***************************************************************************)
PictureOptions ==
    [ scale : Opt({<<1280, 720>>}), crop : Opt({<<704, 480, 8, 0>>}),
      post_process : BOOLEAN, high_quality : BOOLEAN ]

ProbedDimensions == { <<720, 480>>, <<1920, 1080>> }

InitEncode ==
    /\ prog \in Progs
    /\ cl \in { c \in CommandLines(prog) :
                  /\ c.start_chapter = None /\ c.end_chapter = None
                  /\ ~c.dvd /\ ~c.bluray
                  /\ ~c.no_chapters /\ ~c.no_subtitles /\ ~c.no_attachments }
    /\ pc = <<"rate", "final">>
    /\ src = NoSrc
    /\ procs = [ id \in ProcIds |-> "none" ]
    /\ reaped = {}
    /\ passState = [ p \in Passes |-> "NotStarted" ]
    /\ invoked = {}
    /\ work_dir = "exists"
    /\ paths = [ chapters |-> FALSE, attachments |-> FALSE, subtitles |-> FALSE ]
    /\ exit_code = None
    /\ cwd = "orig"
    /\ error = ""
    /\ chapters = <<>>
    /\ chap_start = None
    /\ chap_end = None
    /\ new_chapters = <<>>
    /\ chap_file = "absent"
    /\ mux_args = NoMuxArgs
    /\ cmd = <<>>
    /\ video_framerate = 25000
    /\ rate_cl \in RateOptions
    /\ video_framerate_frac = StoredRate(video_framerate)
    /\ final_rate = <<>>
    /\ kf_max_dist = NoKfMaxDist
    /\ pipes = [ p \in Passes |-> NoPipe ]
    /\ picture_cl \in PictureOptions
    /\ video_dimensions \in ProbedDimensions
    /\ final_dimensions = <<>>
    /\ popen_args = NoPopenArgs

NextEncode ==
    \/ FinalRate
    \/ EncodePass1
    \/ EncodePass2

SpecEncode == InitEncode /\ [][NextEncode]_vars

(***************************************************************************)
(* Reading a chapter text                                                  *)
(***************************************************************************)
IsTime(l) == l.kind = "time"
TimeEntries(txt)  == SelectSeq(txt, IsTime)
IndexOf(l)        == ParseInt(l.idx)
HasIndex(txt, i)  == \E k \in 1..Len(txt) : IsTime(txt[k]) /\ IndexOf(txt[k]) = i
StampOfIndex(txt, i) ==
    timedelta((CHOOSE l \in { txt[k] : k \in 1..Len(txt) } : IsTime(l) /\ IndexOf(l) = i).time)

Returned == pc = <<"returned", "begin">>
Raised   == pc = <<"exited", "begin">> /\ exit_code = Some(1)

\* The entries of the tool's text that lie in the requested range
InRequestedRange(l) ==
    /\ (chap_start = None \/ IndexOf(l) >= Val(chap_start))
    /\ (chap_end = None \/ IndexOf(l) <= Val(chap_end))
Retained == SelectSeq(TimeEntries(chapters), InRequestedRange)

ShiftIndex == IF chap_start = None THEN 0 ELSE Val(chap_start) - 1
ShiftTime  == IF chap_start = None THEN 0 ELSE StampOfIndex(chapters, Val(chap_start))

(***************************************************************************)
(* Claims about the pipes                                                  *)
(***************************************************************************)
Terminal  == {"Success", "DecodeFailed", "EncodeFailed"}
Failed(p) == passState[p] \in {"DecodeFailed", "EncodeFailed"}
Exists(id) == procs[id] # "none"
Ended == pc = <<"exited", "begin">>

LaterPasses(p) ==
    CASE p = "audio" -> {"pass1", "pass2"}
      [] p = "pass1" -> {"pass2"}
      [] p = "pass2" -> {}

\* C1: a pass-2 process exists only when both pass-1 processes have been
\* waited for and have exited with status zero (pass 1 ended in Success); no
\* pass-2 process exists beside a running or failed pass-1 process.
C1_Pass2OnlyAfterPass1Success ==
    (\E st \in Stages : Exists(<<"pass2", st>>)) =>
        /\ passState["pass1"] = "Success"
        /\ \A st \in Stages : /\ procs[<<"pass1", st>>] = "exit0"
                              /\ <<"pass1", st>> \in reaped

C1_Witness ==
    /\ procs[<<"pass2", "decode">>] = "running"
    /\ procs[<<"pass2", "encode">>] = "running"

\* C2: a pass with a stage that exited non-zero never ends in Success; once a
\* pass has failed the job is over with exit status 1, no process of a later
\* pass exists and the muxer has not been run.
C2_PassFailureAbortsJob ==
    \A p \in Passes :
        /\ passState[p] = "Success" =>
               \A st \in Stages : procs[<<p, st>>] = "exit0"
        /\ Failed(p) =>
               /\ Ended /\ exit_code = Some(1)
               /\ \A q \in LaterPasses(p), st \in Stages : ~Exists(<<q, st>>)
               /\ "mkvmerge" \notin invoked

C2_Witness ==
    /\ passState["audio"] = "Success"
    /\ passState["pass1"] = "EncodeFailed"
    /\ Ended

\* C3: a pass reports a decode failure exactly when its decode stage exited
\* non-zero, whatever the encoder's status, and an encode failure exactly when
\* the decode stage exited zero and the encode stage non-zero.
C3_DecodeFailureNotMasked ==
    \A p \in Passes :
        /\ passState[p] = "DecodeFailed" <=>
               (<<p, "decode">> \in reaped /\ procs[<<p, "decode">>] = "exit1")
        /\ passState[p] = "EncodeFailed" <=>
               /\ procs[<<p, "decode">>] = "exit0"
               /\ <<p, "encode">> \in reaped /\ procs[<<p, "encode">>] = "exit1"
        /\ (passState[p] = "DecodeFailed" /\ Ended) => error = "DecodeError"
        /\ (passState[p] = "EncodeFailed" /\ Ended) => error = "EncodeError"

C3_Witness ==
    \E p \in Passes : /\ passState[p] = "DecodeFailed"
                      /\ procs[<<p, "encode">>] = "exit0"

\* C4: a pass is in a terminal state only when every process it launched has
\* been waited for.
C4_TerminalOnlyAfterBothWaits ==
    \A p \in Passes :
        passState[p] \in Terminal =>
            \A st \in Stages : Exists(<<p, st>>) => <<p, st>> \in reaped

(***************************************************************************)
(* Claims about extract_chapters                                           *)
(***************************************************************************)
\* C5: when extract_chapters returns, the timestamp entries it wrote are the
\* entries of the source whose index lies in the range, in order, each with
\* its index lowered by chap_start - 1 and its timestamp by the timestamp of
\* chapter chap_start (by nothing when chap_start is None).
C5_EmitsShiftedRange ==
    (Returned /\ (chap_start = None \/ HasIndex(chapters, Val(chap_start)))) =>
        LET out == TimeEntries(new_chapters)
        IN  /\ Len(out) = Len(Retained)
            /\ \A k \in 1..Len(out) :
                 /\ IndexOf(out[k]) = IndexOf(Retained[k]) - ShiftIndex
                 /\ timedelta(out[k].time) = timedelta(Retained[k].time) - ShiftTime

\* C6: the timestamp entries written carry the indices 1..K in order, the
\* first timestamp is zero, none is negative and they increase strictly.
\* Stated for the calls in which the first retained chapter is meant to land
\* on time zero: a start index is given, or the source's first chapter is at
\* zero (with no start index the offset is zero and a later first chapter
\* keeps its timestamp).
C6_ContiguousIncreasingFromZero ==
    (Returned /\ (chap_start # None
                  \/ \A k \in 1..Len(chapters) :
                        (IsTime(chapters[k]) /\ IndexOf(chapters[k]) = 1)
                            => timedelta(chapters[k].time) = 0)) =>
        LET out == TimeEntries(new_chapters)
        IN  /\ \A k \in 1..Len(out) : IndexOf(out[k]) = k
            /\ Len(out) > 0 => timedelta(out[1].time) = 0
            /\ \A k \in 1..Len(out) : timedelta(out[k].time) >= 0
            /\ \A k \in 1..(Len(out) - 1) :
                 timedelta(out[k].time) < timedelta(out[k + 1].time)

\* C7: when chap_start is set and the tool's text has no timestamp entry with
\* that index, extract_chapters raises and no chapter file is written
\* (nothing is substituted for the missing chapter).
C7_MissingStartRaises ==
    (~At("extract_chapters", "begin") /\ chap_start # None
     /\ ~HasIndex(chapters, Val(chap_start))) =>
        /\ Raised
        /\ chap_file = "absent" /\ new_chapters = <<>> /\ ~paths.chapters
        /\ error \in {"StartChapterNotFound", "CalledProcessError"}
        /\ error = "CalledProcessError" => chapters = <<>>

C7_Witness ==
    /\ error = "StartChapterNotFound"
    /\ Len(chapters) > 0
    /\ chap_file = "absent"

\* C8: with no range requested, every line of the source is written, in
\* order, with the same index, the same timestamp and the same title (the
\* same number N of "Chapter N", the same free text).
C8_NoRangeUnchanged ==
    (Returned /\ chap_start = None /\ chap_end = None) =>
        /\ Len(new_chapters) = Len(chapters)
        /\ \A k \in 1..Len(new_chapters) :
             /\ new_chapters[k].kind = chapters[k].kind
             /\ IndexOf(new_chapters[k]) = IndexOf(chapters[k])
             /\ new_chapters[k].time = chapters[k].time
             /\ ParseInt(new_chapters[k].num) = ParseInt(chapters[k].num)
             /\ new_chapters[k].text = chapters[k].text

(***************************************************************************)
(* Claims about sub-ranges in the job                                      *)
(***************************************************************************)
AfterChapters ==
    pc[1] \in {"attachments", "subtitles", "audio", "pass1", "pass2", "mux", "cleanup"}

\* C9 as claimed: with a sub-range requested and a source without chapters the
\* job fails and never goes on to the later steps.
C9_RangeWithoutChaptersFails ==
    (RangeRequested /\ src # NoSrc /\ ~src.has_chapters) =>
        /\ ~AfterChapters
        /\ Ended => exit_code = Some(1)

\* C9 as amended: with a sub-range requested and a source without chapters,
\* the chapters step runs no tool, writes no chapter file, leaves
\* chapters_path None and hands over to the next step without an error.
C9_RangeWithoutChaptersSkips ==
    [][(At("chapters", "begin") /\ RangeRequested /\ ~src.has_chapters) =>
          /\ pc' = <<NextPhase(prog, "chapters"), "begin">>
          /\ exit_code' = None /\ error' = ""
          /\ invoked' = invoked
          /\ chap_file' = "absent" /\ ~paths'.chapters]_vars

C9_Witness ==
    /\ RangeRequested /\ ~src.has_chapters
    /\ At("audio", "launch_enc")
    /\ ~paths.chapters

\* C10: with a sub-range requested, mkvextract tracks is run neither on the
\* audio track nor on the subtitle track.
C10_NoNativeTracksInRange ==
    RangeRequested =>
        invoked \cap {"mkvextract_tracks_audio", "mkvextract_tracks_subtitles"} = {}

(***************************************************************************)
(* Claims about the audio step                                             *)
(***************************************************************************)
AfterAudio == pc[1] \in {"pass1", "pass2", "mux", "cleanup"}

AudioStages == { id \in ProcIds : id[1] = "audio" /\ Exists(id) }

\* C11: with no sub-range requested the audio step does not end on an error
\* of its own and yields its artifact by the source's codec: a Vorbis track
\* of a Matroska file is copied out by mkvextract tracks with no decode and
\* no encode stage; a FLAC track of a Matroska file is read by mkvextract
\* tracks and encoded; any other source is decoded by the generic mplayer
\* path and encoded.  (any2arch reads an AAC track of a Matroska file with
\* mkvextract and faad; that branch is left out of the last case.)
C11_AudioByCodec ==
    ~RangeRequested =>
        /\ error # "AttributeError: __mkvmerge_probe_out"
        /\ AfterAudio =>
              IF src.is_matroska /\ src.audio_codec = "ffvorbis"
              THEN /\ "mkvextract_tracks_audio" \in invoked
                   /\ AudioStages = {}
                   /\ invoked \cap {"oggenc", "faad", "mplayer_audio"} = {}
              ELSE IF src.is_matroska /\ src.audio_codec = "ffflac"
              THEN /\ "mkvextract_tracks_audio" \in invoked
                   /\ "oggenc" \in invoked \/ Exists(<<"audio", "encode">>)
                   /\ "mplayer_audio" \notin invoked
              ELSE IF prog = "any2arch" /\ src.is_matroska /\ src.audio_codec = "ffaac"
              THEN TRUE
              ELSE /\ "mplayer_audio" \in invoked \/ Exists(<<"audio", "decode">>)
                   /\ "oggenc" \in invoked \/ Exists(<<"audio", "encode">>)
                   /\ "mkvextract_tracks_audio" \notin invoked

(***************************************************************************)
(* Claims about the way out of main                                        *)
(***************************************************************************)
\* C13: when the job has ended, on whatever path, the temporary directory it
\* created is no longer there.
C13_WorkDirRemovedAtEnd ==
    Ended => work_dir # "exists"

C13_Witness ==
    /\ Ended
    /\ work_dir = "removed"
    /\ error \in {"StartChapterNotFound", "CalledProcessError", "DecodeError", "EncodeError"}

\* C14: with a Blu-ray source and no forced size or no forced rate, the job
\* ends with exit status 1 in its first step: no external tool has run, no
\* process was started and the temporary directory was never created.
C14_BlurayNeedsSizeAndRate ==
    (cl.bluray /\ (~cl.size \/ ~cl.rate) /\ ~At("start", "begin")) =>
        /\ Ended
        /\ exit_code = Some(1)
        /\ invoked = {}
        /\ \A id \in ProcIds : ~Exists(id)
        /\ work_dir = "none"

C14_Witness ==
    /\ Ended
    /\ cl.bluray /\ cl.size /\ ~cl.rate
    /\ error = "UsageError"

\* Probing, the selected extractions, the audio step, both passes and the mux
\* all succeeded
AllSucceeded ==
    /\ "mplayer_probe" \in invoked /\ error # "ProbeError"
    /\ passState["pass1"] = "Success" /\ passState["pass2"] = "Success"
    /\ "mkvmerge" \in invoked
    /\ error \notin {"CalledProcessError", "DecodeError", "EncodeError"}

\* C15: a job that has ended has exit status 0 exactly when every step
\* succeeded, and exit status 1 whenever an error ended it.
C15_ExitCodeTellsSuccess ==
    Ended =>
        /\ exit_code = Some(0) <=> AllSucceeded
        /\ error # "" => exit_code = Some(1)

(***************************************************************************)
(* Claims about the extraction methods                                     *)
(***************************************************************************)
\* C12: once extract_attachments has run its tool, whether it returned or
\* raised, the working directory is the one it was called in.
C12_CwdRestored ==
    "mkvextract_attachments" \in invoked => cwd = "orig"

\* The stream a method is asked for is one the descriptor marks unavailable
Unavailable(m) ==
    CASE m = "extract_subtitles"   -> ~src.has_subtitles
      [] m = "extract_chapters"    -> ~src.is_matroska /\ src.disc_type # "dvd"
      [] m = "extract_attachments" -> FALSE

\* C16: extract_subtitles called without subtitles, or extract_chapters
\* called on a source that is neither a Matroska file nor a DVD, ends in an
\* error with no tool run and no process started; and the extraction steps
\* of main never end in the error of such a call.
C16_UnavailableStreamRaises ==
    [][/\ (pc[1] = "call" /\ Unavailable(pc[2])) =>
             /\ pc' = <<"exited", "begin">>
             /\ exit_code' = Some(1) /\ error' # ""
             /\ invoked' = invoked /\ procs' = procs
       /\ pc[1] \in {"chapters", "subtitles", "attachments"} =>
             error' \notin {"NoChapters", "NoSubtitles", "AssertionError"}]_vars

C16_Witness ==
    /\ Ended
    /\ error \in {"NoChapters", "NoSubtitles"}
    /\ invoked = {}

(***************************************************************************)
(* Claims about the mkvmerge command                                       *)
(***************************************************************************)
Muxed == cmd # <<>>

OptionWords == {"--title", "--chapters", "--attach-file", "--output", "--language",
                "--aspect-ratio", "--aspect-ratio-factor", "--display-dimensions"}
AspectWords == {"--aspect-ratio", "--aspect-ratio-factor", "--display-dimensions"}

IsOptionWord(w) == w.pre = "" /\ w.s \in OptionWords
Pos(w) == CHOOSE i \in 1..Len(cmd) : cmd[i] = w

\* The positions of the items the command lists: the words that are neither
\* an option nor a language or aspect value, nor mkvmerge, nor the output
ItemPositions ==
    { i \in 2..Len(cmd) :
        /\ ~IsOptionWord(cmd[i]) /\ cmd[i].pre = ""
        /\ cmd[i - 1] # Word("--output") }

RECURSIVE ItemsFrom(_)
ItemsFrom(P) ==
    IF P = {} THEN <<>>
    ELSE LET i == CHOOSE k \in P : \A j \in P : k <= j
         IN  <<cmd[i]>> \o ItemsFrom(P \ {i})

\* The attachment files in ascending order of name
RECURSIVE Ascending(_)
Ascending(S) ==
    IF S = {} THEN <<>>
    ELSE LET m == CHOOSE i \in S : \A j \in S : i <= j
         IN  <<AttachFile(m)>> \o Ascending(S \ {m})

AttachedNames ==
    IF mux_args.attachments = None THEN {}
    ELSE { Val(mux_args.attachments)[k] : k \in 1..Len(Val(mux_args.attachments)) }

ExpectedItems ==
    (IF mux_args.title # None THEN <<Word(Val(mux_args.title))>> ELSE <<>>)
    \o (IF mux_args.chapters # None THEN <<Word(Val(mux_args.chapters))>> ELSE <<>>)
    \o Ascending(AttachedNames)
    \o <<Word(mux_args.vid_file), Word(mux_args.aud_file)>>
    \o (IF mux_args.sub_file # None THEN <<Word(Val(mux_args.sub_file))>> ELSE <<>>)

\* The words between the output and the video file
VideoOptionPositions == { i \in 1..Len(cmd) : Pos(Word(mux_args.out_file)) < i
                                               /\ i < Pos(Word(mux_args.vid_file)) }

\* C17: the items of the command are, in this order, the title, the chapter
\* file, the attachment files in ascending order of name, the video file, the
\* audio file and the subtitle file, each optional one there exactly when it
\* was given; title, chapter file and attachments follow their option word,
\* the options of the video file (its language, its aspect) stand between the
\* output and the video file, the language of the audio file right before it
\* and the language of the subtitle file right before it.
C17_MuxOrder ==
    Muxed =>
        /\ cmd[1] = Word("mkvmerge")
        /\ ItemsFrom(ItemPositions) = ExpectedItems
        /\ \A i \in ItemPositions :
             /\ cmd[i] = Word("Title") => cmd[i - 1] = Word("--title")
             /\ cmd[i] = Word("chapters") => cmd[i - 1] = Word("--chapters")
             /\ cmd[i].s = "attachments/" => cmd[i - 1] = Word("--attach-file")
        /\ mux_args.vid_lang # None =>
             \E i \in VideoOptionPositions :
                 cmd[i] = Word("--language") /\ cmd[i + 1] = Lang(Val(mux_args.vid_lang))
        /\ \A i \in VideoOptionPositions :
             \/ cmd[i].pre = "0:" /\ IsOptionWord(cmd[i - 1])
             \/ cmd[i].s \in AspectWords \cup {"--language"}
        /\ LET v == Pos(Word(mux_args.vid_file))
               u == Pos(Word(mux_args.aud_file))
           IN  IF mux_args.aud_lang # None
               THEN /\ u = v + 3
                    /\ cmd[v + 1] = Word("--language")
                    /\ cmd[v + 2] = Lang(Val(mux_args.aud_lang))
               ELSE u = v + 1
        /\ mux_args.sub_file # None =>
             LET u == Pos(Word(mux_args.aud_file))
                 t == Pos(Word(Val(mux_args.sub_file)))
             IN  /\ t = Len(cmd)
                 /\ IF mux_args.sub_lang # None
                    THEN /\ t = u + 3
                         /\ cmd[u + 1] = Word("--language")
                         /\ cmd[u + 2] = Lang(Val(mux_args.sub_lang))
                    ELSE t = u + 1

C17_Witness ==
    /\ Muxed
    /\ mux_args.title # None /\ mux_args.chapters # None
    /\ mux_args.attachments # None /\ Val(mux_args.attachments) = <<2, 1>>
    /\ mux_args.vid_lang # None /\ mux_args.aud_lang # None
    /\ mux_args.sub_file # None /\ mux_args.sub_lang # None

\* C18: whatever aspect arguments the mux is handed, its command holds at
\* most one of --aspect-ratio, --aspect-ratio-factor and --display-dimensions.
C18_AtMostOneAspectOption ==
    Muxed =>
        Cardinality({ i \in 1..Len(cmd) : IsOptionWord(cmd[i]) /\ cmd[i].s \in AspectWords }) <= 1

C18_Witness ==
    /\ Muxed
    /\ Cardinality(GivenAspects(mux_args)) >= 2


\* The rate of the probe text k / 1000 is within 1e-5, relative, of
\* ceil( f ) * 1000 / 1001:  10^5 * |10^6 * c - 1001 * k| < 1001 * k
SnapsExactly(k) ==
    LET c == (k + 999) \div 1000
        d == 1000000 * c - 1001 * k
    IN  (IF d < 0 THEN 0 - d ELSE d) <= (1001 * k - 1) \div 100000

ExpectedFrac(k) ==
    IF SnapsExactly(k)
    THEN <<BigOfInt(((k + 999) \div 1000) * 1000), BigOfInt(1001)>>
    ELSE <<BigOfInt(k \div Gcd(k, 1000)), BigOfInt(1000 \div Gcd(k, 1000))>>

\* kf = floor( 10 * num / den ) on the integers: kf * den <= 10 * num < (kf + 1) * den
IsExactFloor(kf, r) ==
    LET n10 == BigMulAdd(r[1], 10, 0)
    IN  /\ ~BigLess(n10, BigStrip(BigMulAdd(r[2], kf, 0)))
        /\ BigLess(n10, BigMulAdd(r[2], kf + 1, 0))

\* C19: for the rational frame rate handed to the encoder, the keyframe
\* maximum distance of each pass is floor(10 * num / den) computed exactly on
\* the integers; it is 239 for 24000/1001, and pass 1 and pass 2 get the same
\* value.
C19_KeyframeDistanceExact ==
    /\ \A p \in {"pass1", "pass2"} :
         kf_max_dist[p] # None =>
             /\ IsExactFloor(Val(kf_max_dist[p]), final_rate)
             /\ final_rate = BigPair(<<24000, 1001>>) => Val(kf_max_dist[p]) = 239
    /\ (kf_max_dist["pass1"] # None /\ kf_max_dist["pass2"] # None)
           => kf_max_dist["pass1"] = kf_max_dist["pass2"]

\* C20: the rational stored for a probed frame rate f of three decimals is
\* (ceil(f) * 1000, 1001) if |ceil(f) / 1.001 - f| / f < 1e-5 and f in lowest
\* terms otherwise: 24000/1001 for 23.976, 30000/1001 for 29.970, 60000/1001
\* for 59.940 and 25/1 for 25.000.
C20_StoredRational ==
    (video_framerate # 0 /\ ~(prog = "any2arch" /\ rate_cl.rate # None))
        => video_framerate_frac = ExpectedFrac(video_framerate)

\* C21: in every pass the decoder's output stream is the input of exactly
\* one encoder, that of the same pass; the parent has closed its own handle
\* once the encoder is started and before it waits on either child; a
\* decoder is started anew for each pass and feeds no second encoder.
C21_PipeHandedToOneEncoder ==
    \A p \in Passes :
        /\ pipes[p].stdin_of \subseteq {<<p, "encode">>}
        /\ (pipes[p].parent # "none") <=> Exists(<<p, "decode">>)
        /\ Exists(<<p, "encode">>) <=> pipes[p].stdin_of = {<<p, "encode">>}
        /\ pipes[p].parent = "closed" <=> Exists(<<p, "encode">>)
        /\ (pc[1] = p /\ pc[2] \in {"wait_dec", "wait_enc"}) => pipes[p].parent = "closed"
        /\ (\E st \in Stages : <<p, st>> \in reaped) => pipes[p].parent = "closed"

C21_Witness ==
    /\ <<"pass2", "encode">> \in reaped
    /\ \A p \in {"pass1", "pass2"} :
          pipes[p] = [ parent |-> "closed", stdin_of |-> {<<p, "encode">>} ]

\* The title lines of a text, and those of the tool's text whose index lies
\* in the requested range
IsTitle(l)        == l.kind \in {"title1", "title2"}
TitleEntries(txt) == SelectSeq(txt, IsTitle)
RetainedTitles    == SelectSeq(TitleEntries(chapters), InRequestedRange)

\* C22: when extract_chapters returns, the title lines it wrote are the title
\* lines of the source whose CHAPTERnnNAME index lies in the requested range,
\* one for one and in order; each keeps its form, a free-text title keeps its
\* text verbatim, and each carries the new index of the retained timestamp
\* entry of the same original index.
C22_TitlesFollowRange ==
    Returned =>
        LET out   == TitleEntries(new_chapters)
            times == TimeEntries(new_chapters)
        IN  /\ Len(out) = Len(RetainedTitles)
            /\ \A k \in 1..Len(out) :
                 /\ out[k].kind = RetainedTitles[k].kind
                 /\ out[k].kind = "title2" => out[k].text = RetainedTitles[k].text
                 /\ IndexOf(out[k]) = IndexOf(RetainedTitles[k]) - ShiftIndex
                 /\ \A j \in 1..Len(Retained) :
                      (j <= Len(times) /\ IndexOf(Retained[j]) = IndexOf(RetainedTitles[k]))
                          => times[j].idx = out[k].idx

AttachmentsWanted == src.attachment_cnt > 0 /\ ~cl.no_attachments

\* C24: for a probed source with an attachment, attachments not disabled,
\* the attachments are extracted before the audio and video steps begin, the
\* mkvmerge command attaches every extracted file, and the attachments step
\* ends the job for no reason but a failure of mkvextract.
C24_AttachmentsExtractedAndMuxed ==
    AttachmentsWanted =>
        /\ (pc[1] \in {"audio", "pass1", "pass2", "mux", "cleanup"}
              \/ \E id \in ProcIds : Exists(id))
               => ("mkvextract_attachments" \in invoked /\ paths.attachments)
        /\ Muxed => \A i \in 1..src.attachment_cnt :
                       \E k \in 2..Len(cmd) : /\ cmd[k] = AttachFile(i)
                                              /\ cmd[k - 1] = Word("--attach-file")
        /\ error # "AttributeError: attachments_cnt"

LanguagePositions == { i \in 1..Len(cmd) : cmd[i] = Word("--language") }

MuxedFiles ==
    {Word(mux_args.vid_file), Word(mux_args.aud_file)}
    \cup (IF mux_args.sub_file # None THEN {Word(Val(mux_args.sub_file))} ELSE {})

\* C25: in the mkvmerge command every --language option and its value are
\* followed by the file they apply to; the language of the subtitles is there
\* only with a subtitle file, so that a command without one ends with the
\* audio file and never with a language.
C25_LanguageHasItsFile ==
    Muxed =>
        /\ \A i \in LanguagePositions :
             \E j \in (i + 2)..Len(cmd) : cmd[j] \in MuxedFiles
        /\ mux_args.sub_file = None => cmd[Len(cmd)] = Word(mux_args.aud_file)


=========================================================================
